---------------------------- MODULE Spec2Model ----------------------------
(***************************************************************************)
(* A model of the search-pattern engine of src/generic/apt/matchers.cc:    *)
(* the recursive-descent parser (parse_pattern and the functions below     *)
(* it), the matcher nodes with their four evaluation entry points, and     *)
(* the facade functions apply_matcher / get_match.                         *)
(*                                                                         *)
(* Pattern text is a TLA+ string; positions are 1-based indices into it,   *)
(* the C++ iterator `end' being Len(s) + 1.  A matcher tree is a record    *)
(* whose field `kind' names the C++ class.  A match result is the flat     *)
(* sequence of its groups; the NULL result is a record with hit = FALSE.   *)
(***************************************************************************)
EXTENDS Integers, Sequences, FiniteSets, TLC

(***************************************************************************)
(* Characters (<ctype.h>)                                                  *)
(***************************************************************************)
UpperChars == "ABCDEFGHIJKLMNOPQRSTUVWXYZ"
LowerChars == "abcdefghijklmnopqrstuvwxyz"

Ch(s, i) == SubSeq(s, i, i)

LowerMap ==
  [c \in {Ch(UpperChars, i) : i \in 1..Len(UpperChars)} |->
     Ch(LowerChars, CHOOSE i \in 1..Len(UpperChars) : Ch(UpperChars, i) = c)]

tolower(c) == IF c \in DOMAIN LowerMap THEN LowerMap[c] ELSE c

isspace(c) == c \in {" ", "\t", "\n"}

isalpha(c) ==
  \/ c \in DOMAIN LowerMap
  \/ c \in {Ch(LowerChars, i) : i \in 1..Len(LowerChars)}

RECURSIVE LowerStr(_)
LowerStr(s) == IF s = "" THEN "" ELSE tolower(Head(s)) \o LowerStr(Tail(s))

\* strcasecmp(a, b) == 0
strcaseeq(a, b) == LowerStr(a) = LowerStr(b)

(***************************************************************************)
(* The catalog (apt's pkgCache and aptitudeDepCache, read only).           *)
(*                                                                         *)
(* A package is named by a string.  A version is a positive number, NoVer  *)
(* is the end iterator.  A dependency is a record                          *)
(*   [type, target, op, tver, or, ginst]                                   *)
(* where op/tver are the version constraint ("" when there is none), `or'  *)
(* is the Dep::Or bit of CompareOp (the next dependency of the list        *)
(* continues the or-group) and ginst is cache[dep] & DepGInstall.          *)
(***************************************************************************)
NoVer == 0

Dep(type, target, op, tver, or, ginst) ==
  [type |-> type, target |-> target, op |-> op, tver |-> tver,
   or |-> or, ginst |-> ginst]

Ver(pkg, verstr, section, deps, provides) ==
  [pkg |-> pkg, verstr |-> verstr, section |-> section, deps |-> deps,
   provides |-> provides]

\* The fixture of the end-to-end scenarios, with a package that depends on
\* itself and a package with two versions, one of them installed.
Catalog1 ==
  [pkgs  |-> <<"apt", "libapt", "ghost", "self", "two">>,
   vers  |-> [p \in {"apt", "libapt", "ghost", "self", "two"} |->
                CASE p = "apt"    -> <<1>>
                  [] p = "libapt" -> <<2>>
                  [] p = "ghost"  -> <<>>
                  [] p = "self"   -> <<3>>
                  [] p = "two"    -> <<4, 5>>],
   cur   |-> [p \in {"apt", "libapt", "ghost", "self", "two"} |->
                CASE p = "apt" -> 1 [] p = "two" -> 5 [] OTHER -> NoVer],
   ver   |-> <<Ver("apt", "1.0", "admin",
                   <<Dep("Depends", "libapt", "", "", FALSE, TRUE)>>, <<>>),
               Ver("libapt", "1.0", "libs", <<>>, <<"ghost">>),
               Ver("self", "1.0", "misc",
                   <<Dep("Depends", "self", "", "", FALSE, TRUE)>>, <<>>),
               Ver("two", "1.0", "misc", <<>>, <<>>),
               Ver("two", "2.0", "misc", <<>>, <<>>)>>]

\* Dependency and provides cycles, a provided package that has real
\* versions, a PreDepends, a versioned dependency and a broken or-group.
Catalog2 ==
  [pkgs  |-> <<"a", "b", "mta", "v">>,
   vers  |-> [p \in {"a", "b", "mta", "v"} |->
                CASE p = "a"   -> <<1, 2>>
                  [] p = "b"   -> <<3>>
                  [] p = "mta" -> <<4>>
                  [] p = "v"   -> <<>>],
   cur   |-> [p \in {"a", "b", "mta", "v"} |->
                CASE p = "a" -> 1 [] p = "mta" -> 4 [] OTHER -> NoVer],
   ver   |-> <<Ver("a", "1.0", "admin",
                   <<Dep("Depends", "b", "", "", FALSE, TRUE),
                     Dep("PreDepends", "v", "", "", FALSE, FALSE)>>,
                   <<"mta">>),
               Ver("a", "2.0", "admin",
                   <<Dep("Depends", "b", ">=", "2.0", TRUE, FALSE),
                     Dep("Depends", "mta", "", "", FALSE, FALSE),
                     Dep("Recommends", "a", "=", "1.0", FALSE, TRUE)>>,
                   <<>>),
               Ver("b", "1.0", "libs",
                   <<Dep("Depends", "a", ">=", "2.0", FALSE, TRUE),
                     Dep("Conflicts", "mta", "", "", FALSE, TRUE)>>,
                   <<"v", "b">>),
               Ver("mta", "1.0", "mail",
                   <<Dep("Depends", "mta", "", "", FALSE, TRUE)>>,
                   <<"v">>)>>]

\* Dependencies of a package on itself: a PreDepends, a Depends that no
\* version satisfies, a Recommends, and a Depends of one version that the
\* other version satisfies.
Catalog3 ==
  [pkgs  |-> <<"pre", "old", "rec", "alt">>,
   vers  |-> [p \in {"pre", "old", "rec", "alt"} |->
                CASE p = "pre" -> <<1>>
                  [] p = "old" -> <<2>>
                  [] p = "rec" -> <<3>>
                  [] p = "alt" -> <<4, 5>>],
   cur   |-> [p \in {"pre", "old", "rec", "alt"} |->
                CASE p = "pre" -> 1 [] p = "alt" -> 4 [] OTHER -> NoVer],
   ver   |-> <<Ver("pre", "1.0", "admin",
                   <<Dep("PreDepends", "pre", "", "", FALSE, TRUE)>>, <<>>),
               Ver("old", "1.0", "misc",
                   <<Dep("Depends", "old", ">=", "2.0", FALSE, FALSE)>>, <<>>),
               Ver("rec", "1.0", "misc",
                   <<Dep("Recommends", "rec", "", "", FALSE, TRUE)>>, <<>>),
               Ver("alt", "1.0", "libs", <<>>, <<>>),
               Ver("alt", "2.0", "libs",
                   <<Dep("Depends", "alt", "=", "1.0", FALSE, TRUE)>>, <<>>)>>]

Catalogs == <<Catalog1, Catalog2, Catalog3>>


VARIABLES
  cat,        \* which catalog of Catalogs the calls are evaluated against
  phase,      \* "idle" | "parsed" | "evaluated"
  text,       \* parse_pattern: the input range [start, end)
  shape,      \* the nesting the text was built from (NoShape: a corpus text)
  terms,      \* parse_pattern: the terminators
  flags,      \* parse_pattern: search_descriptions, flag_errors, require_full_parse
  parsed,     \* parse_pattern: what the call did (matcher, start, thrown, logged)
  call,       \* the last facade call on the matcher: [mode, pkg, ver]
  outcome,    \* what apply_matcher and get_match returned for that call
  cached_matches, \* pkg_user_tag_matcher: the member map of the parsed node
  threads,    \* each caller's position and locals inside noncopy_get_match
  rx          \* a pkg_string_matcher with groups and its last get_string_match

vars == <<cat, phase, text, shape, terms, flags, parsed, call, outcome,
          cached_matches, threads, rx>>

C == Catalogs[cat]

VersionList(pkg) == C.vers[pkg]
CurrentVer(pkg) == C.cur[pkg]
DependsList(ver) == C.ver[ver].deps
PkgName(pkg) == pkg

RECURSIVE Concat(_)
Concat(ss) == IF ss = <<>> THEN <<>> ELSE Head(ss) \o Concat(Tail(ss))

\* Every dependency of the cache, as [ver, idx]: dependency idx of DependsList(ver).
AllDeps ==
  Concat([v \in 1..Len(C.ver) |->
            [i \in 1..Len(C.ver[v].deps) |-> [ver |-> v, idx |-> i]]])

DepAt(d) == C.ver[d.ver].deps[d.idx]

\* pkg.RevDependsList(): the dependencies whose target is pkg;
\* d.ParentVer() is d.ver and d.ParentPkg() its package.
RevDependsList(pkg) == SelectSeq(AllDeps, LAMBDA d : DepAt(d).target = pkg)

\* ver.ProvidesList(): p.ParentPkg() of each entry, the provided package.
VerProvidesList(ver) == C.ver[ver].provides

\* pkg.ProvidesList(): p.OwnerVer() of each entry; p.OwnerPkg() is its package.
PkgProvidesList(pkg) ==
  SelectSeq([v \in 1..Len(C.ver) |-> v],
            LAMBDA v : \E i \in 1..Len(C.ver[v].provides) : C.ver[v].provides[i] = pkg)

\* The version order of the version system, on the version strings in use.
VerOrd(s) == CASE s = "1.0" -> 1 [] s = "2.0" -> 2 [] s = "3.0" -> 3

\* _system->VS->CheckDep(verstr, op, tver)
CheckDep(verstr, op, tver) ==
  IF tver = "" THEN TRUE
  ELSE CASE op = "="  -> VerOrd(verstr) = VerOrd(tver)
         [] op = ">=" -> VerOrd(verstr) >= VerOrd(tver)
         [] op = "<=" -> VerOrd(verstr) <= VerOrd(tver)
         [] op = "<<" -> VerOrd(verstr) < VerOrd(tver)
         [] op = ">>" -> VerOrd(verstr) > VerOrd(tver)
         [] OTHER     -> TRUE

\* while(d2->CompareOp & pkgCache::Dep::Or) ++d2;  cache[d2] & DepGInstall
RECURSIVE OrGroupEnd(_, _)
OrGroupEnd(ver, i) ==
  IF DependsList(ver)[i].or /\ i < Len(DependsList(ver))
  THEN OrGroupEnd(ver, i + 1) ELSE i

OrGroupGInstall(d) == DependsList(d.ver)[OrGroupEnd(d.ver, d.idx)].ginst

\* surrounding_or(dep, start, end): the first dependency of dep's or-group.
RECURSIVE OrGroupStart(_, _)
OrGroupStart(ver, i) ==
  IF i > 1 /\ DependsList(ver)[i - 1].or THEN OrGroupStart(ver, i - 1) ELSE i

RECURSIVE Realization(_, _, _)
Realization(ver, i, last) ==
  LET d == DependsList(ver)[i]
      one == d.target \o (IF d.tver # ""
                          THEN " (" \o d.op \o " " \o d.tver \o ")" ELSE "")
  IN  IF i = last THEN one ELSE one \o " | " \o Realization(ver, i + 1, last)

\* dep_match(dep): pair(unitary(DepType), unitary(realization))
dep_match(d) ==
  <<DepAt(d).type,
    Realization(d.ver, OrGroupStart(d.ver, d.idx), OrGroupEnd(d.ver, d.idx))>>

(***************************************************************************)
(* pkg_string_matcher: POSIX extended, case-insensitive regular            *)
(* expressions.  The patterns of this model are literal words, for which   *)
(* regexec is a case-insensitive substring search and group 0 the matched  *)
(* part of the subject.                                                    *)
(***************************************************************************)
\* By convention, empty patterns match anything.
compile(pattern) == IF pattern = "" THEN ".*" ELSE pattern

RegexPositions(re, s) ==
  {i \in 1..(Len(s) + 1) :
     i + Len(re) - 1 <= Len(s) /\ LowerStr(SubSeq(s, i, i + Len(re) - 1)) = LowerStr(re)}

string_matches(re, s) == re = ".*" \/ RegexPositions(re, s) # {}

\* get_string_match: the groups of the match (group 0 alone for a literal).
get_string_match(re, s) ==
  IF re = ".*" THEN <<s>>
  ELSE LET i == CHOOSE k \in RegexPositions(re, s) :
                  \A j \in RegexPositions(re, s) : k <= j
       IN  <<SubSeq(s, i, i + Len(re) - 1)>>

(***************************************************************************)
(* stack_value                                                             *)
(***************************************************************************)
package_value(pkg) == [type |-> "package", pkg |-> pkg, ver |-> NoVer]
version_value(pkg, ver) == [type |-> "version", pkg |-> pkg, ver |-> ver]

\* A relation that looks at the packages alone.
is_match_for_package(a, b) == a.pkg = b.pkg

is_match_for(a, b) ==
  CASE a.type = "package" -> a.pkg = b.pkg
    [] a.type = "version" ->
         CASE b.type = "package" -> a.pkg = b.pkg
           [] b.type = "version" -> a.pkg = b.pkg /\ a.ver = b.ver

(***************************************************************************)
(* Matcher nodes (the classes derived from pkg_matcher_real)               *)
(***************************************************************************)
\* A negation that negates nothing.
NotMSame(child) == child
\* A ?narrow that forgets its filter.
SelectMPattern(filter, pattern) == pattern

StringM(kind, pattern) == [kind |-> kind, re |-> compile(pattern)]
LeafM(kind) == [kind |-> kind]
TypeM(kind, type) == [kind |-> kind, type |-> type]
DepM(type, pattern, broken) ==
  [kind |-> "dep", type |-> type, pattern |-> pattern, broken |-> broken]
RevDepM(type, pattern, broken) ==
  [kind |-> "revdep", type |-> type, pattern |-> pattern, broken |-> broken]
ProvidesM(pattern) == [kind |-> "provides", pattern |-> pattern]
RevPrvM(pattern) == [kind |-> "revprv", pattern |-> pattern]
OrM(left, right) == [kind |-> "or", left |-> left, right |-> right]
AndM(left, right) == [kind |-> "and", left |-> left, right |-> right]
NotM(child) == [kind |-> "not", child |-> child]
WidenM(pattern) == [kind |-> "widen", pattern |-> pattern]
SelectM(filter, pattern) ==
  [kind |-> "select", filter |-> filter, pattern |-> pattern]
AllM(sub) == [kind |-> "all", sub_matcher |-> sub]
AnyM(sub) == [kind |-> "any", sub_matcher |-> sub]
ExplicitM(sub) == [kind |-> "explicit", sub_matcher |-> sub]
BindM(sub, variable) ==
  [kind |-> "bind", sub_matcher |-> sub, variable |-> variable]
EqualM(variable) == [kind |-> "equal", variable |-> variable]

\* The children of a node.
Children(m) ==
  CASE m.kind \in {"dep", "revdep", "provides", "revprv", "widen"} -> <<m.pattern>>
    [] m.kind \in {"or", "and"} -> <<m.left, m.right>>
    [] m.kind = "not" -> <<m.child>>
    [] m.kind = "select" -> <<m.filter, m.pattern>>
    [] m.kind \in {"all", "any", "explicit", "bind"} -> <<m.sub_matcher>>
    [] OTHER -> <<>>

Max(a, b) == IF a >= b THEN a ELSE b

RECURSIVE Height(_)
Height(m) ==
  LET cs == Children(m)
  IN  CASE Len(cs) = 0 -> 1
        [] Len(cs) = 1 -> 1 + Height(cs[1])
        [] Len(cs) = 2 -> 1 + Max(Height(cs[1]), Height(cs[2]))

\* The classes that define the package-mode matches / get_match themselves;
\* the others inherit pkg_matcher_real's.
OverridesPackageMode ==
  {"or", "and", "not", "widen", "all", "any", "explicit", "bind"}

(***************************************************************************)
(* Evaluation.  A result is [hit, groups, st, status]: hit is the boolean  *)
(* of matches or "the result is not NULL" of get_match, groups the groups  *)
(* of the result, st the match stack the call leaves behind, and status    *)
(* "ok", "assert" when an eassert failed (the exception unwinds through    *)
(* the callers) or "fuel" when the nesting of calls exceeded the budget    *)
(* the facade gave.                                                        *)
(***************************************************************************)
Res(hit, groups, st) ==
  [hit |-> hit, groups |-> groups, st |-> st, status |-> "ok"]
Threw(st, why) == [hit |-> FALSE, groups |-> <<>>, st |-> st, status |-> why]
NoMatch(r) == [r EXCEPT !.hit = FALSE, !.groups = <<>>]

\* One evaluation a loop makes: the mode, the package and version it is
\* applied to, and the groups paired after the sub-matcher's own.
In(mode, pkg, ver, tail) ==
  [mode |-> mode, pkg |-> pkg, ver |-> ver, tail |-> tail]

Tail4(op, groups) == IF op = "get_match" THEN groups ELSE <<>>

\* stack_pusher: the constructor and the destructor.
Push(st, val) == Append(st, val)
\* A stack_pusher whose destructor does nothing.
PopNothing(st) == st

Pop(st) == IF Len(st) > 0 THEN SubSeq(st, 1, Len(st) - 1) ELSE st

\* pkg_explicit_matcher: the mode in which the sub-matcher is evaluated on
\* (pkg, ver); get_match(pkg, ver, ...) calls sub_matcher->get_match(pkg, ...).
ExplicitSubMode(op) == IF op = "get_match" THEN "pkg" ELSE "ver"

\* pkg_provides_matcher: matches applies the pattern to the provided package
\* in package mode, get_match to (p.ParentPkg(), VerIterator(cache)).
ProvidesSubMode(op) == IF op = "get_match" THEN "ver" ELSE "pkg"

\* A type test that takes PreDepends for a type of its own.
DepTypeExact(type, deptype) == type = deptype

\* The dependency types a pkg_dep_matcher of the given type looks at, and a
\* pkg_revdep_matcher on its direct path.
DepTypeSelected(type, deptype) ==
  type = deptype \/ (type = "Depends" /\ deptype = "PreDepends")

\* The types a pkg_revdep_matcher looks at on its path through provides.
RevDepPrvTypeSelected(type, deptype) == deptype = type

\* A ?widen that keeps the mode it is called in.
WidenModeSame(mode) == mode

\* pkg_widen_matcher: all four functions call the package overload of the
\* pattern.
WidenMode(mode) == "pkg"

\* The sub-matcher a node hands its targets to.
\* A dependency matcher whose pattern is the matcher itself.
DepPatternSelf(m) == m

DepPattern(m) == m.pattern
\* A Bind that applies the negation of its sub-matcher.
BindSubMatcherNegated(m) == NotM(m.sub_matcher)

BindSubMatcher(m) == m.sub_matcher

\* The versions the inherited package-mode functions try.
DefaultVersions(pkg) ==
  IF VersionList(pkg) = <<>> THEN <<NoVer>> ELSE VersionList(pkg)

\* pkg_dep_matcher: what the pattern is applied to, in order.
DepTargets(m, op, ver) ==
  Concat([i \in 1..Len(DependsList(ver)) |->
    LET d == [ver |-> ver, idx |-> i]
        dep == DepAt(d)
        tail == Tail4(op, dep_match(d))
    IN  IF ~DepTypeSelected(m.type, dep.type) THEN <<>>
        ELSE IF m.broken /\ OrGroupGInstall(d) THEN <<>>
        ELSE IF VersionList(dep.target) = <<>>
             THEN <<In("ver", dep.target, NoVer, tail)>>
             ELSE LET ok == SelectSeq(VersionList(dep.target),
                              LAMBDA v : CheckDep(C.ver[v].verstr, dep.op, dep.tver))
                  IN  [k \in 1..Len(ok) |-> In("ver", dep.target, ok[k], tail)]])

\* pkg_revdep_matcher: the direct reverse dependencies, then those on the
\* packages that ver provides.
RevDepTargets(m, op, pkg, ver) ==
  LET direct == RevDependsList(pkg)
      one(d) == <<In("ver", C.ver[d.ver].pkg, d.ver, Tail4(op, dep_match(d)))>>
      prv == IF ver = NoVer THEN <<>> ELSE VerProvidesList(ver)
  IN  Concat([i \in 1..Len(direct) |->
        LET d == direct[i]
            dep == DepAt(d)
        IN  IF m.broken /\ OrGroupGInstall(d) THEN <<>>
            ELSE IF DepTypeSelected(m.type, dep.type)
                    /\ (dep.tver = ""
                        \/ (ver # NoVer /\ CheckDep(C.ver[ver].verstr, dep.op, dep.tver)))
                 THEN one(d) ELSE <<>>])
      \o
      Concat([j \in 1..Len(prv) |->
        LET rd == RevDependsList(prv[j])
        IN  Concat([i \in 1..Len(rd) |->
              LET d == rd[i]
                  dep == DepAt(d)
              IN  IF m.broken /\ OrGroupGInstall(d) THEN <<>>
                  ELSE IF RevDepPrvTypeSelected(m.type, dep.type) /\ dep.tver = ""
                       THEN one(d) ELSE <<>>])])

ProvidesTargets(op, ver) ==
  LET prv == VerProvidesList(ver)
  IN  [i \in 1..Len(prv) |->
         In(ProvidesSubMode(op), prv[i], NoVer, Tail4(op, <<"Provides">>))]

RevPrvTargets(op, pkg) ==
  LET prv == PkgProvidesList(pkg)
  IN  [i \in 1..Len(prv) |->
         In("ver", C.ver[prv[i]].pkg, prv[i], Tail4(op, <<"Provided by">>))]

VersionInputs(pkg, vs) == [i \in 1..Len(vs) |-> In("ver", pkg, vs[i], <<>>)]

\* The leaves: matches(pkg, ver) and the groups of get_match(pkg, ver).
LeafVal(m, pkg, ver) ==
  CASE m.kind = "name" -> [ok |-> TRUE, s |-> PkgName(pkg)]
    [] m.kind = "section" ->
         IF ver = NoVer THEN [ok |-> FALSE, s |-> ""]
         ELSE [ok |-> TRUE, s |-> C.ver[ver].section]
    [] m.kind = "version" ->
         IF ver = NoVer THEN [ok |-> FALSE, s |-> ""]
         ELSE [ok |-> TRUE, s |-> C.ver[ver].verstr]

BrokenDeps(m, ver) ==
  SelectSeq([i \in 1..Len(DependsList(ver)) |-> [ver |-> ver, idx |-> i]],
            LAMBDA d : LET e == [ver |-> ver, idx |-> OrGroupEnd(ver, d.idx)]
                       IN  DepAt(e).type = m.type /\ ~DepAt(e).ginst)

LeafHit(m, pkg, ver) ==
  CASE m.kind \in {"name", "section", "version"} ->
         LeafVal(m, pkg, ver).ok /\ string_matches(m.re, LeafVal(m, pkg, ver).s)
    [] m.kind = "curr_version" -> ver # NoVer /\ ver = CurrentVer(pkg)
    [] m.kind = "installed" -> CurrentVer(pkg) # NoVer /\ ver = CurrentVer(pkg)
    [] m.kind = "virtual" -> ver = NoVer
    [] m.kind = "true" -> TRUE
    [] m.kind = "false" -> FALSE
    [] m.kind = "broken_type" -> ver # NoVer /\ BrokenDeps(m, ver) # <<>>

LeafGroups(m, pkg, ver) ==
  CASE m.kind \in {"name", "section", "version"} ->
         get_string_match(m.re, LeafVal(m, pkg, ver).s)
    [] m.kind = "curr_version" -> <<C.ver[ver].verstr>>
    [] m.kind = "installed" -> <<"Installed">>
    [] m.kind = "virtual" -> <<"Virtual">>
    [] m.kind = "true" -> <<>>
    [] m.kind = "broken_type" ->
         LET d == Head(BrokenDeps(m, ver))
         IN  dep_match([ver |-> ver, idx |-> OrGroupEnd(ver, d.idx)])

RECURSIVE Eval(_, _, _, _, _, _, _), ForAny(_, _, _, _, _), ForAll(_, _, _, _, _, _)

\* The first of the inputs on which m matches (the loops that return at the
\* first match).
ForAny(m, op, inputs, st, fuel) ==
  IF inputs = <<>> THEN Res(FALSE, <<>>, st)
  ELSE LET i == Head(inputs)
           r == Eval(m, op, i.mode, i.pkg, i.ver, st, fuel)
       IN  IF r.status # "ok" THEN r
           ELSE IF r.hit THEN [r EXCEPT !.groups = @ \o i.tail]
           ELSE ForAny(m, op, Tail(inputs), r.st, fuel)

\* A quantifier that looks at the first version alone.
ForAllFirst(m, op, inputs, st, fuel, last) ==
  IF inputs = <<>> THEN [last EXCEPT !.st = st]
  ELSE Eval(m, op, Head(inputs).mode, Head(inputs).pkg, Head(inputs).ver, st, fuel)

\* pkg_all_matcher in package mode: every input must match; `last' is the
\* result so far (TRUE before the loop for matches, NULL for get_match).
ForAll(m, op, inputs, st, fuel, last) ==
  IF inputs = <<>> THEN [last EXCEPT !.st = st]
  ELSE LET i == Head(inputs)
           r == Eval(m, op, i.mode, i.pkg, i.ver, st, fuel)
       IN  IF r.status # "ok" \/ ~r.hit THEN r
           ELSE ForAll(m, op, Tail(inputs), r.st, fuel, r)

Eval(m, op, mode, pkg, ver, st, fuel) ==
  IF fuel = 0 THEN Threw(st, "fuel")
  ELSE
  LET f == fuel - 1 IN
  CASE m.kind = "or" ->
         LET l == Eval(m.left, op, mode, pkg, ver, st, f)
         IN  IF l.status # "ok" \/ l.hit THEN l
             ELSE Eval(m.right, op, mode, pkg, ver, l.st, f)
    [] m.kind = "and" ->
         LET l == Eval(m.left, op, mode, pkg, ver, st, f)
         IN  IF l.status # "ok" \/ ~l.hit THEN l
             ELSE LET r == Eval(m.right, op, mode, pkg, ver, l.st, f)
                  IN  IF r.status # "ok" \/ ~r.hit THEN r
                      ELSE [r EXCEPT !.groups = l.groups \o @]
    [] m.kind = "not" ->
         LET c == Eval(m.child, op, mode, pkg, ver, st, f)
         IN  IF c.status # "ok" THEN c ELSE Res(~c.hit, <<>>, c.st)
    [] m.kind = "widen" -> Eval(m.pattern, op, WidenMode(mode), pkg,
                                IF WidenMode(mode) = "pkg" THEN NoVer ELSE ver, st, f)
    [] m.kind = "explicit" ->
         LET r == IF mode = "pkg"
                  THEN Eval(m.sub_matcher, op, "pkg", pkg, NoVer,
                            Push(st, package_value(pkg)), f)
                  ELSE IF ExplicitSubMode(op) = "pkg"
                       THEN Eval(m.sub_matcher, op, "pkg", pkg, NoVer,
                                 Push(st, version_value(pkg, ver)), f)
                       ELSE Eval(m.sub_matcher, op, "ver", pkg, ver,
                                 Push(st, version_value(pkg, ver)), f)
         IN  [r EXCEPT !.st = Pop(@)]
    [] m.kind = "bind" ->
         IF ~(m.variable >= 0 /\ m.variable < Len(st)) THEN Threw(st, "assert")
         ELSE LET val == st[m.variable + 1]
              IN  IF val.type = "package"
                  THEN Eval(BindSubMatcher(m), op, "pkg", val.pkg, NoVer, st, f)
                  ELSE Eval(BindSubMatcher(m), op, "ver", val.pkg, val.ver, st, f)
    [] m.kind = "all" /\ mode = "pkg" ->
         ForAll(m.sub_matcher, op, VersionInputs(pkg, VersionList(pkg)), st, f,
                Res(op = "matches", <<>>, st))
    [] m.kind = "any" /\ mode = "pkg" ->
         ForAny(m.sub_matcher, op, VersionInputs(pkg, VersionList(pkg)), st, f)
    [] m.kind \in {"all", "any"} /\ mode = "ver" ->
         Eval(m.sub_matcher, op, "ver", pkg, ver, st, f)
    [] m.kind \notin OverridesPackageMode /\ mode = "pkg" ->
         ForAny(m, op, VersionInputs(pkg, DefaultVersions(pkg)), st, f)
    [] m.kind = "select" /\ mode = "ver" ->
         LET flt == Eval(m.filter, "matches", "ver", pkg, ver, st, f)
         IN  IF flt.status # "ok" \/ ~flt.hit THEN flt
             ELSE Eval(m.pattern, op, "ver", pkg, ver, flt.st, f)
    [] m.kind = "dep" /\ mode = "ver" ->
         IF ver = NoVer THEN Res(FALSE, <<>>, st)
         ELSE ForAny(DepPattern(m), op, DepTargets(m, op, ver), st, f)
    [] m.kind = "revdep" /\ mode = "ver" ->
         ForAny(m.pattern, op, RevDepTargets(m, op, pkg, ver), st, f)
    [] m.kind = "provides" /\ mode = "ver" ->
         IF ver = NoVer THEN Res(FALSE, <<>>, st)
         ELSE ForAny(m.pattern, op, ProvidesTargets(op, ver), st, f)
    [] m.kind = "revprv" /\ mode = "ver" ->
         ForAny(m.pattern, op, RevPrvTargets(op, pkg), st, f)
    [] m.kind = "equal" /\ mode = "ver" ->
         IF ~(m.variable >= 0 /\ m.variable < Len(st)) THEN Threw(st, "assert")
         ELSE Res(is_match_for(st[m.variable + 1], version_value(pkg, ver)), <<>>, st)
    [] OTHER ->
         IF LeafHit(m, pkg, ver)
         THEN Res(TRUE, Tail4(op, LeafGroups(m, pkg, ver)), st)
         ELSE Res(FALSE, <<>>, st)

\* The budget of nested calls the facade gives: a node evaluated in package
\* mode may evaluate itself once in version mode before its children.
Fuel(m) == 2 * Height(m)

\* apply_matcher and get_match, on (pkg, ver) and on pkg: a fresh stack.
Facade(m, op, mode, pkg, ver) == Eval(m, op, mode, pkg, ver, <<>>, Fuel(m))

(***************************************************************************)
(* The parser.  A parsing function takes the context                       *)
(*   ctx = [s, terms, sd, wide, env]                                       *)
(* (the text, the terminators, search_descriptions, wide_context and the   *)
(* name_context) and the position `start'; it returns [m, pos, err]: the   *)
(* matcher, the new value of `start', and the message of the               *)
(* CompilationException it threw ("" when it returned).  The functions     *)
(* that return a string return [str, pos, err].                            *)
(***************************************************************************)
NullM == [kind |-> "null"]

Ok(m, pos) == [m |-> m, pos |-> pos, err |-> ""]
Throw(pos, msg) == [m |-> NullM, pos |-> pos, err |-> msg]
Rethrow(r) == [m |-> NullM, pos |-> r.pos, err |-> r.err]
OkStr(str, pos) == [str |-> str, pos |-> pos, err |-> ""]
ThrowStr(pos, msg) == [str |-> "", pos |-> pos, err |-> msg]

End(s) == Len(s) + 1

\* *start; reading at `end' gives the terminating NUL.
At(s, pos) == IF pos >= 1 /\ pos <= Len(s) THEN Ch(s, pos) ELSE ""

Min(a, b) == IF a <= b THEN a ELSE b

\* terminate(start, end, terminators): the loop stops at the end of the
\* text as well as at the end of the terminator.
terminate(s, start, terminators) ==
  \E i \in 1..Len(terminators) :
     LET n == Min(Len(terminators[i]), End(s) - start)
     IN  SubSeq(s, start, start + n - 1) = SubSeq(terminators[i], 1, n)

\* parse_whitespace, and the same loop where it is written inline.
RECURSIVE parse_whitespace(_, _)
parse_whitespace(s, pos) ==
  IF pos # End(s) /\ isspace(At(s, pos)) THEN parse_whitespace(s, pos + 1) ELSE pos

\* while(start != end && isspace(*start) && !terminate(...)) ++start;
RECURSIVE SkipSpaceUnlessTerminator(_, _, _)
SkipSpaceUnlessTerminator(s, pos, terminators) ==
  IF pos # End(s) /\ isspace(At(s, pos)) /\ ~terminate(s, pos, terminators)
  THEN SkipSpaceUnlessTerminator(s, pos + 1, terminators) ELSE pos

parse_required_character(s, start, c) ==
  LET pos == parse_whitespace(s, start)
  IN  IF pos = End(s) THEN ThrowStr(pos, "Match pattern ends unexpectedly")
      ELSE IF At(s, pos) # c THEN ThrowStr(pos, "Expected other character")
      ELSE OkStr(c, pos + 1)

parse_open_paren(s, start) == parse_required_character(s, start, "(")
parse_close_paren(s, start) == parse_required_character(s, start, ")")
parse_comma(s, start) == parse_required_character(s, start, ",")

RECURSIVE parse_literal_string_tail(_, _, _)
parse_literal_string_tail(s, pos, rval) ==
  IF pos # End(s) /\ At(s, pos) # "\""
  THEN IF At(s, pos) = "\\"
       THEN IF pos + 1 # End(s)
            THEN parse_literal_string_tail(s, pos + 2,
                   rval \o (CASE At(s, pos + 1) = "n" -> "\n"
                              [] At(s, pos + 1) = "t" -> "\t"
                              [] OTHER -> At(s, pos + 1)))
            ELSE parse_literal_string_tail(s, pos + 1, rval)
       ELSE parse_literal_string_tail(s, pos + 1, rval \o At(s, pos))
  ELSE IF pos = End(s) THEN ThrowStr(pos, "Unterminated literal string")
  ELSE OkStr(rval, pos + 1)

Metacharacters == {"(", ")", "!", "~", "|", "\""}

\* The inner loop of parse_substr.
RECURSIVE SubstrRun(_, _, _, _, _)
SubstrRun(s, pos, terminators, whitespace_breaks, rval) ==
  IF /\ pos # End(s)
     /\ At(s, pos) \notin Metacharacters
     /\ (~whitespace_breaks \/ ~isspace(At(s, pos)))
     /\ ~terminate(s, pos, terminators)
  THEN SubstrRun(s, pos + 1, terminators, whitespace_breaks, rval \o At(s, pos))
  ELSE OkStr(rval, pos)

\* rval += parse_literal_string_tail(start, end)
AppendLiteral(run, t) ==
  IF t.err # "" THEN t ELSE OkStr(run.str \o t.str, t.pos)

\* if(start != end && *start == '"')
SubstrLiteral(s, run) ==
  IF run.pos # End(s) /\ At(s, run.pos) = "\""
  THEN AppendLiteral(run, parse_literal_string_tail(s, run.pos + 1, ""))
  ELSE run

\* The do ... while(!done) loop of parse_substr: the run of plain
\* characters, the literal string, the escape after them.
RECURSIVE SubstrLoop(_, _, _, _, _)
SubstrEscape(s, lit, terminators, whitespace_breaks) ==
  IF lit.err # "" THEN lit
  ELSE IF /\ lit.pos # End(s)
          /\ lit.pos + 1 # End(s)
          /\ At(s, lit.pos) = "~"
          /\ \/ At(s, lit.pos + 1) \in Metacharacters
             \/ (whitespace_breaks /\ isspace(At(s, lit.pos + 1)))
       THEN SubstrLoop(s, lit.pos + 2, terminators, whitespace_breaks,
                       lit.str \o At(s, lit.pos + 1))
       ELSE lit

SubstrLoop(s, start, terminators, whitespace_breaks, acc) ==
  SubstrEscape(s,
               SubstrLiteral(s, SubstrRun(s, start, terminators, whitespace_breaks,
                                          acc)),
               terminators, whitespace_breaks)

parse_substr(s, start, terminators, whitespace_breaks) ==
  SubstrLoop(s, parse_whitespace(s, start), terminators, whitespace_breaks, "")

\* parse_string_match_args: the steps after parse_open_paren.
StringArgsClosed(substr, c) ==
  IF c.err # "" THEN c ELSE OkStr(substr.str, c.pos)

StringArgsClose(s, substr) ==
  IF substr.err # "" THEN substr
  ELSE StringArgsClosed(substr, parse_close_paren(s, substr.pos))

StringArgsOpened(s, o) ==
  IF o.err # "" THEN o ELSE StringArgsClose(s, parse_substr(s, o.pos, <<>>, FALSE))

parse_string_match_args(s, start) == StringArgsOpened(s, parse_open_paren(s, start))

\* stripws (generic/util/util.h)
RECURSIVE stripws(_)
stripws(str) ==
  IF str # "" /\ isspace(Head(str)) THEN stripws(Tail(str))
  ELSE IF str # "" /\ isspace(Ch(str, Len(str))) THEN stripws(SubSeq(str, 1, Len(str) - 1))
  ELSE str

DepTypeNames ==
  <<"Depends", "PreDepends", "Recommends", "Suggests", "Conflicts", "Breaks", "Replaces">>

\* parse_deptype: the type, or "-1".
parse_deptype(str) ==
  IF \E i \in 1..Len(DepTypeNames) : strcaseeq(str, DepTypeNames[i])
  THEN DepTypeNames[CHOOSE i \in 1..Len(DepTypeNames) : strcaseeq(str, DepTypeNames[i])]
  ELSE "-1"

ActionM(type, require_purge) ==
  [kind |-> "action", type |-> type, require_purge |-> require_purge]

make_action_matcher(action_str, pos) ==
  CASE strcaseeq(action_str, "install") -> Ok(ActionM("install", FALSE), pos)
    [] strcaseeq(action_str, "upgrade") -> Ok(ActionM("upgrade", FALSE), pos)
    [] strcaseeq(action_str, "downgrade") -> Ok(ActionM("downgrade", FALSE), pos)
    [] strcaseeq(action_str, "remove") -> Ok(ActionM("remove", FALSE), pos)
    [] strcaseeq(action_str, "purge") -> Ok(ActionM("remove", TRUE), pos)
    [] strcaseeq(action_str, "reinstall") -> Ok(ActionM("reinstall", FALSE), pos)
    [] strcaseeq(action_str, "hold") -> Ok(ActionM("hold", FALSE), pos)
    [] strcaseeq(action_str, "keep") -> Ok(LeafM("keep"), pos)
    [] OTHER -> Throw(pos, "Unknown action type")

PriorityNames == <<"important", "required", "standard", "optional", "extra">>

\* parse_priority, with the English names.
parse_priority(str, pos) ==
  IF \E i \in 1..Len(PriorityNames) : strcaseeq(str, PriorityNames[i])
  THEN Ok(TypeM("priority",
                PriorityNames[CHOOSE i \in 1..Len(PriorityNames) :
                                strcaseeq(str, PriorityNames[i])]), pos)
  ELSE Throw(pos, "Unknown priority")

make_package_version_matcher(str) ==
  CASE str = "CURRENT" -> LeafM("curr_version")
    [] str = "TARGET" -> LeafM("inst_version")
    [] str = "CANDIDATE" -> LeafM("cand_version")
    [] OTHER -> StringM("version", str)

(***************************************************************************)
(* parse_environment: imm::map<std::string, int> (generic/util/immset.h),  *)
(* an immutable map; binding a name that is bound already replaces its     *)
(* value, and size() counts the names.                                     *)
(***************************************************************************)
EmptyEnv == <<>>
EnvSize(env) == Cardinality(DOMAIN env)
EnvBind(env, name, idx) ==
  [k \in (DOMAIN env) \cup {name} |-> IF k = name THEN idx ELSE env[k]]
EnvGet(env, name, dflt) == IF name \in DOMAIN env THEN env[name] ELSE dflt

\* A lookup that gives an unknown variable the index 0.
get_variable_index_default(bound_variable, name_context) ==
  [idx |-> EnvGet(name_context, bound_variable, 0), err |-> ""]

\* get_variable_index: [idx, err]
get_variable_index(bound_variable, name_context) ==
  LET idx == EnvGet(name_context, bound_variable, -1)
  IN  IF idx = -1 THEN [idx |-> idx, err |-> "Unknown variable"]
      ELSE [idx |-> idx, err |-> ""]

\* The index ?for gives the variable it binds.
\* The index one above the top of the stack.
NewVariableIndexAbove(name_context) == EnvSize(name_context) + 1

NewVariableIndex(name_context) == EnvSize(name_context)

\* The characters that end a variable name after ?for and ?=.
VariableStops == {"(", "!", "|", ")", "?", "~", ":"}
\* The characters that end the name of a function-style matcher.
NameStops == {"(", "!", "|", ")", "?", "~"}

RECURSIVE ScanVariable(_, _, _, _)
ScanVariable(s, pos, terminators, acc) ==
  IF /\ pos # End(s)
     /\ At(s, pos) \notin VariableStops
     /\ ~isspace(At(s, pos))
     /\ ~terminate(s, pos, terminators)
  THEN ScanVariable(s, pos + 1, terminators, acc \o At(s, pos))
  ELSE OkStr(acc, pos)

\* The name loop of parse_function_style_matcher_tail:
\* [raw, lower, bound, pos, err].
RECURSIVE ScanName(_, _, _, _, _, _)
ScanName(s, pos, terminators, raw, lower, bound) ==
  IF /\ pos # End(s)
     /\ At(s, pos) \notin NameStops
     /\ ~isspace(At(s, pos))
     /\ ~terminate(s, pos, terminators)
  THEN IF At(s, pos) = ":"
       THEN IF bound # ""
            THEN [raw |-> raw, lower |-> lower, bound |-> bound, pos |-> pos,
                  err |-> "Unexpected ':'"]
            ELSE ScanName(s, pos + 1, terminators, "", "", LowerStr(raw))
       ELSE ScanName(s, pos + 1, terminators, raw \o At(s, pos),
                     lower \o tolower(At(s, pos)), bound)
  ELSE [raw |-> raw, lower |-> lower, bound |-> bound, pos |-> pos, err |-> ""]

\* add_new_terminator
add_new_terminator(new_terminator, terminators) ==
  IF \E i \in 1..Len(terminators) : terminators[i] = new_terminator
  THEN terminators ELSE Append(terminators, new_terminator)

\* The names of matcher_types[] that take no argument, and those that take
\* one string.
PlainTypes ==
  {"automatic", "broken", "config-files", "essential", "false", "garbage",
   "installed", "new", "obsolete", "true", "upgradable", "virtual"}
StringTypes ==
  {"archive", "description", "maintainer", "name", "origin", "section",
   "source-package", "source-version", "tag", "task", "user-tag"}
OtherTypes ==
  {"action", "all-versions", "and", "any-version", "bind", "for", "narrow",
   "not", "or", "priority", "provides", "version", "widen"}

PlainKind(name) ==
  CASE name = "automatic" -> "auto"
    [] name = "config-files" -> "config_files"
    [] OTHER -> name
StringKind(name) ==
  CASE name = "source-package" -> "source_package"
    [] name = "source-version" -> "source_version"
    [] name = "user-tag" -> "user_tag"
    [] OTHER -> name

(***************************************************************************)
(* The recursive functions of the grammar.  `start' is passed by           *)
(* reference: a function leaves it where it stopped reading, also when it  *)
(* throws.  A result r = [m, pos, err] is handed from one step to the      *)
(* next; a step given a result that carries an exception passes it on,     *)
(* which is the unwinding of the stack.                                    *)
(***************************************************************************)
From(pos) == Ok(NullM, pos)

\* parse_required_character after r, keeping r's matcher.
Expected(r, q) ==
  IF q.err # "" THEN Throw(q.pos, q.err) ELSE [r EXCEPT !.pos = q.pos]

Expect(s, r, c) ==
  IF r.err # "" THEN r ELSE Expected(r, parse_required_character(s, r.pos, c))

\* parse_whitespace after r.
Whitespace(s, r) ==
  IF r.err # "" THEN r ELSE [r EXCEPT !.pos = parse_whitespace(s, r.pos)]

\* new T(a1)
MakeUnary(kind, r) ==
  IF r.err # "" THEN r
  ELSE [r EXCEPT !.m = CASE kind = "not" -> NotM(@)
                         [] kind = "widen" -> WidenM(@)
                         [] kind = "provides" -> ProvidesM(@)
                         [] kind = "revprv" -> RevPrvM(@)
                         [] kind = "all" -> AllM(@)
                         [] kind = "any" -> AnyM(@)
                         [] kind = "explicit" -> ExplicitM(@)]

\* new T(a1, a2), the arguments being r.m = <<a1, a2>>
MakeBinary(kind, r) ==
  IF r.err # "" THEN r
  ELSE [r EXCEPT !.m = CASE kind = "and" -> AndM(@[1], @[2])
                         [] kind = "or" -> OrM(@[1], @[2])
                         [] kind = "select" -> SelectM(@[1], @[2])]

\* new pkg_dep_matcher(type, m, broken), new pkg_revdep_matcher(type, m, broken)
MakeDep(kind, type, broken, r) ==
  IF r.err # "" THEN r
  ELSE [r EXCEPT !.m = IF kind = "dep" THEN DepM(type, @, broken)
                       ELSE RevDepM(type, @, broken)]

\* if(m.get() != NULL) new pkg_dep_matcher(...) else new pkg_broken_type_matcher
MakeDepOrBrokenType(type, broken, r) ==
  IF r.err # "" THEN r
  ELSE [r EXCEPT !.m = IF @ # NullM THEN DepM(type, @, broken)
                       ELSE TypeM("broken_type", type)]

\* A ?bind that makes the node ?for makes.
MakeBindExplicit(idx, r) ==
  IF r.err # "" THEN r ELSE [r EXCEPT !.m = ExplicitM(@)]

\* new pkg_bind_matcher(m, idx)
MakeBind(idx, r) ==
  IF r.err # "" THEN r ELSE [r EXCEPT !.m = BindM(@, idx)]

PairUp(a1, a2) ==
  IF a2.err # "" THEN a2 ELSE [a2 EXCEPT !.m = <<a1.m, @>>]

\* The calls that close the recursion, parse_atom and parse_condition_list
\* from inside an atom, are made through Parse, at the position r stands at.
RECURSIVE Parse(_, _, _, _, _, _, _)

\* Also parse_unary_matcher: the same steps.
parse_pkg_matcher_args(s, start, terminators, search_descriptions, wide_context, name_context) ==
  Expect(s, Parse("parse_condition_list", s, Expect(s, From(start), "("),
                  terminators, search_descriptions, wide_context, name_context),
         ")")

\* Returns NullM with no error where the code returns NULL.
parse_optional_pkg_matcher_args(s, start, terminators, search_descriptions, wide_context, name_context) ==
  LET pos == parse_whitespace(s, start)
  IN  IF pos # End(s) /\ At(s, pos) = "("
      THEN parse_pkg_matcher_args(s, pos, terminators, search_descriptions,
                                  wide_context, name_context)
      ELSE Ok(NullM, pos)

\* parse_binary_matcher from parse_comma on, a1 being the first argument.
BinarySecond(s, a1, terminators, search_descriptions, wide_context, name_context) ==
  PairUp(a1,
         Expect(s, Parse("parse_condition_list", s, Expect(s, a1, ","), terminators,
                         search_descriptions, wide_context, name_context),
                ")"))

\* Returns the two arguments as m = <<a1, a2>>.
parse_binary_matcher(s, start, terminators, search_descriptions, wide_context, name_context) ==
  BinarySecond(s,
               Parse("parse_condition_list", s, Expect(s, From(start), "("),
                     add_new_terminator(",", terminators), search_descriptions,
                     wide_context, name_context),
               terminators, search_descriptions, wide_context, name_context)

parse_explicit_matcher(s, start, terminators, search_descriptions, wide_context, name_context) ==
  LET v == ScanVariable(s, parse_whitespace(s, start), terminators, "")
      pos == parse_whitespace(s, v.pos)
      bound_variable == LowerStr(v.str)
      name_context2 == EnvBind(name_context, bound_variable,
                               NewVariableIndex(name_context))
  IN  IF pos = End(s) THEN Throw(pos, "Unexpected end of pattern following ?for")
      ELSE IF At(s, pos) # ":" THEN Throw(pos, "Unexpected character following ?for")
      ELSE MakeUnary("explicit",
                     Parse("parse_condition_list", s,
                           From(parse_whitespace(s, pos + 1)), terminators,
                           search_descriptions, wide_context, name_context2))

\* case matcher_type_bind of parse_matcher_args
parse_bind_matcher(s, start, terminators, search_descriptions, wide_context, name_context) ==
  LET o == Expect(s, From(parse_whitespace(s, start)), "(")
      variable_name == parse_substr(s, o.pos, <<")", ",">>, TRUE)
      idx == get_variable_index(variable_name.str, name_context)
      cm == Whitespace(s, Expect(s, From(parse_whitespace(s, variable_name.pos)), ","))
  IN  IF o.err # "" THEN o
      ELSE IF variable_name.err # "" THEN Rethrow(variable_name)
      ELSE IF idx.err # "" THEN Throw(variable_name.pos, idx.err)
      ELSE MakeBind(idx.idx,
                    Expect(s,
                           Whitespace(s, Parse("parse_condition_list", s, cm, <<")">>,
                                               search_descriptions, wide_context,
                                               name_context)),
                           ")"))

HasPrefix(str, prefix) == SubSeq(str, 1, Min(Len(prefix), Len(str))) = prefix
DropPrefix(str, prefix) == SubSeq(str, Len(prefix) + 1, Len(str))

\* The check made for ?all-versions only.
WideContextViolationAllOnly(matcher_name, wide_context) ==
  matcher_name = "all-versions" /\ ~wide_context

\* case matcher_type_all, case matcher_type_any: if(!wide_context) throw
WideContextViolation(matcher_name, wide_context) ==
  matcher_name \in {"all-versions", "any-version"} /\ ~wide_context

\* The matchers made from parse_string_match_args.
OfString(matcher_name, strArgs) ==
  IF strArgs.err # "" THEN Rethrow(strArgs)
  ELSE CASE matcher_name = "action" -> make_action_matcher(strArgs.str, strArgs.pos)
         [] matcher_name = "priority" -> parse_priority(strArgs.str, strArgs.pos)
         [] matcher_name = "version" ->
              Ok(make_package_version_matcher(strArgs.str), strArgs.pos)
         [] OTHER -> Ok(StringM(StringKind(matcher_name), strArgs.str), strArgs.pos)

parse_matcher_args(matcher_name, s, start0, terminators, search_descriptions, wide_context, name_context) ==
  LET broken_prefix == "broken-"
      reverse_prefix == "reverse-"
      broken ==
        \/ HasPrefix(matcher_name, broken_prefix)
        \/ /\ HasPrefix(matcher_name, reverse_prefix)
           /\ HasPrefix(DropPrefix(matcher_name, reverse_prefix), broken_prefix)
      reverse ==
        \/ /\ HasPrefix(matcher_name, broken_prefix)
           /\ HasPrefix(DropPrefix(matcher_name, broken_prefix), reverse_prefix)
        \/ /\ ~HasPrefix(matcher_name, broken_prefix)
           /\ HasPrefix(matcher_name, reverse_prefix)
      suffix ==
        IF broken /\ reverse
        THEN SubSeq(matcher_name, Len(broken_prefix) + Len(reverse_prefix) + 1,
                    Len(matcher_name))
        ELSE IF broken THEN DropPrefix(matcher_name, broken_prefix)
        ELSE IF reverse THEN DropPrefix(matcher_name, reverse_prefix)
        ELSE matcher_name
      deptype == parse_deptype(suffix)
      start == SkipSpaceUnlessTerminator(s, start0, terminators)
  IN  IF deptype = "-1" /\ reverse /\ suffix = "provides"
        THEN MakeUnary("revprv",
               parse_pkg_matcher_args(s, start, terminators, search_descriptions,
                                      FALSE, name_context))
      ELSE IF deptype = "-1" /\ (broken \/ reverse)
        THEN Throw(start, "Unknown dependency type")
      ELSE IF deptype # "-1" /\ reverse
        THEN MakeDep("revdep", deptype, broken,
               parse_pkg_matcher_args(s, start, terminators, search_descriptions,
                                      FALSE, name_context))
      ELSE IF deptype # "-1" /\ broken
        THEN MakeDepOrBrokenType(deptype, broken,
               parse_optional_pkg_matcher_args(s, start, terminators,
                                               search_descriptions, FALSE,
                                               name_context))
      ELSE IF deptype # "-1"
        THEN MakeDep("dep", deptype, broken,
               parse_pkg_matcher_args(s, start, terminators, search_descriptions,
                                      FALSE, name_context))
      ELSE IF matcher_name \in PlainTypes
        THEN Ok(LeafM(PlainKind(matcher_name)), start)
      ELSE IF matcher_name \in StringTypes
        THEN OfString(matcher_name, parse_string_match_args(s, start))
      ELSE IF matcher_name \notin OtherTypes
        THEN Throw(start, "Unknown matcher type")
      ELSE IF WideContextViolation(matcher_name, wide_context)
        THEN Throw(start, "must be used in a wide context")
      ELSE CASE matcher_name \in {"action", "priority", "version"} ->
                  OfString(matcher_name, parse_string_match_args(s, start))
             [] matcher_name = "all-versions" ->
                  MakeUnary("all",
                    parse_pkg_matcher_args(s, start, terminators, search_descriptions,
                                           FALSE, name_context))
             [] matcher_name = "any-version" ->
                  MakeUnary("any",
                    parse_pkg_matcher_args(s, start, terminators, search_descriptions,
                                           FALSE, name_context))
             [] matcher_name = "and" ->
                  MakeBinary("and",
                    parse_binary_matcher(s, start, terminators, search_descriptions,
                                         wide_context, name_context))
             [] matcher_name = "or" ->
                  MakeBinary("or",
                    parse_binary_matcher(s, start, terminators, search_descriptions,
                                         wide_context, name_context))
             [] matcher_name = "narrow" ->
                  MakeBinary("select",
                    parse_binary_matcher(s, start, terminators, search_descriptions,
                                         FALSE, name_context))
             [] matcher_name = "not" ->
                  MakeUnary("not",
                    parse_pkg_matcher_args(s, start, terminators, search_descriptions,
                                           wide_context, name_context))
             [] matcher_name = "provides" ->
                  MakeUnary("provides",
                    parse_pkg_matcher_args(s, start, terminators, search_descriptions,
                                           FALSE, name_context))
             [] matcher_name = "widen" ->
                  MakeUnary("widen",
                    parse_pkg_matcher_args(s, start, terminators, search_descriptions,
                                           TRUE, name_context))
             [] matcher_name = "for" ->
                  parse_explicit_matcher(s, start, terminators, search_descriptions,
                                         wide_context, name_context)
             [] matcher_name = "bind" ->
                  parse_bind_matcher(s, start, terminators, search_descriptions,
                                     wide_context, name_context)

\* maybe_bind; the matcher has been parsed when the variable is looked up.
maybe_bind(bound_variable, r, name_context) ==
  LET idx == get_variable_index(bound_variable, name_context)
  IN  IF r.err # "" THEN r
      ELSE IF bound_variable = "" THEN r
      ELSE IF idx.err # "" THEN Throw(r.pos, idx.err)
      ELSE Ok(BindM(r.m, idx.idx), r.pos)

parse_function_style_matcher_tail(s, start, terminators, search_descriptions, wide_context, name_context) ==
  IF At(s, start) = "="
  THEN LET v == ScanVariable(s, parse_whitespace(s, start + 1), terminators, "")
           idx == get_variable_index(v.str, name_context)
       IN  IF v.str = "" THEN Throw(v.pos, "Unexpected end of pattern following ?=")
           ELSE IF idx.err # "" THEN Throw(v.pos, idx.err)
           ELSE Ok(EqualM(idx.idx), v.pos)
  ELSE LET n == ScanName(s, parse_whitespace(s, start), terminators, "", "", "")
       IN  IF n.err # "" THEN Throw(n.pos, n.err)
           ELSE maybe_bind(n.bound,
                           parse_matcher_args(n.lower, s, n.pos, terminators,
                                              search_descriptions, wide_context,
                                              name_context),
                           name_context)

\* The short forms that take no argument.
ShortPlainKind(search_flag) ==
  CASE search_flag = "v" -> "virtual"
    [] search_flag = "b" -> "broken"
    [] search_flag = "g" -> "garbage"
    [] search_flag = "c" -> "config_files"
    [] search_flag = "i" -> "installed"
    [] search_flag = "E" -> "essential"
    [] search_flag = "M" -> "auto"
    [] search_flag = "N" -> "new"
    [] search_flag = "U" -> "upgradable"
    [] search_flag = "o" -> "obsolete"
    [] OTHER -> ""

\* The short forms that take one string.
ShortStringKind(search_flag) ==
  CASE search_flag = "A" -> "archive"
    [] search_flag = "d" -> "description"
    [] search_flag = "G" -> "tag"
    [] search_flag = "m" -> "maintainer"
    [] search_flag = "n" -> "name"
    [] search_flag = "O" -> "origin"
    [] search_flag = "s" -> "section"
    [] search_flag = "t" -> "task"
    [] OTHER -> ""

RECURSIVE ScanAlpha(_, _, _)
ScanAlpha(s, pos, terminators) ==
  IF pos # End(s) /\ isalpha(At(s, pos)) /\ ~terminate(s, pos, terminators)
  THEN ScanAlpha(s, pos + 1, terminators) ELSE pos

\* case 'P', 'C', 'W': the inner switch
MakeShort(search_flag, r) ==
  IF r.err # "" THEN r
  ELSE [r EXCEPT !.m = CASE search_flag = "C" -> DepM("Conflicts", @, FALSE)
                         [] search_flag = "P" -> ProvidesM(@)
                         [] search_flag = "W" -> WidenM(@)]

\* An inner switch that drops the B of ~DB and ~RB.
MakeShortDepUnbroken(search_flag, do_provides, type, broken, r) ==
  IF r.err # "" THEN r
  ELSE [r EXCEPT !.m =
          CASE search_flag = "D" /\ do_provides -> ProvidesM(@)
            [] search_flag = "D" /\ ~do_provides -> DepM(type, @, FALSE)
            [] search_flag = "R" /\ do_provides -> RevPrvM(@)
            [] search_flag = "R" /\ ~do_provides -> RevDepM(type, @, FALSE)]

\* case 'D', 'R': the inner switch
MakeShortDep(search_flag, do_provides, type, broken, r) ==
  IF r.err # "" THEN r
  ELSE [r EXCEPT !.m =
          CASE search_flag = "D" /\ do_provides -> ProvidesM(@)
            [] search_flag = "D" /\ ~do_provides -> DepM(type, @, broken)
            [] search_flag = "R" /\ do_provides -> RevPrvM(@)
            [] search_flag = "R" /\ ~do_provides -> RevDepM(type, @, broken)]

\* case 'S': the second atom, after the filter.
SelectPattern(s, filter, terminators, search_descriptions, name_context) ==
  PairUp(filter,
         Parse("parse_atom", s, filter, terminators, search_descriptions, FALSE,
               name_context))

\* default: the inner switch on the flags that take a string
ShortString(search_flag, substr) ==
  IF substr.err # "" THEN Rethrow(substr)
  ELSE CASE ShortStringKind(search_flag) # "" ->
              Ok(StringM(ShortStringKind(search_flag), substr.str), substr.pos)
         [] search_flag = "a" -> make_action_matcher(substr.str, substr.pos)
         [] search_flag = "B" ->
              IF parse_deptype(substr.str) # "-1"
              THEN Ok(TypeM("broken_type", parse_deptype(substr.str)), substr.pos)
              ELSE Throw(substr.pos, "Unknown dependency type")
         [] search_flag = "F" -> Ok(LeafM("false"), substr.pos)
         [] search_flag = "T" -> Ok(LeafM("true"), substr.pos)
         [] search_flag = "p" -> parse_priority(substr.str, substr.pos)
         [] search_flag = "V" ->
              Ok(make_package_version_matcher(substr.str), substr.pos)
         [] OTHER -> Throw(substr.pos, "Unknown pattern type")

\* The '~' branch of parse_atom from `const char search_flag = *start' on.
parse_short_form(s, flagpos, terminators, search_descriptions, wide_context, name_context) ==
  LET search_flag == At(s, flagpos)
      start == parse_whitespace(s, flagpos + 1)
      \* case 'D', 'R'
      broken == start # End(s) /\ At(s, start) = "B"
      start2 == IF broken THEN start + 1 ELSE start
      nextstart == parse_whitespace(s, ScanAlpha(s, start2, terminators))
      typed == nextstart # End(s) /\ At(s, nextstart) = ":"
      tname == stripws(SubSeq(s, start2, nextstart - 1))
      start3 == IF typed THEN nextstart + 1 ELSE start2
      do_provides == typed /\ strcaseeq(tname, "provides")
      type == IF typed /\ ~do_provides THEN parse_deptype(tname) ELSE "Depends"
  IN  CASE ShortPlainKind(search_flag) # "" ->
             Ok(LeafM(ShortPlainKind(search_flag)), start)
        [] search_flag \in {"P", "C", "W"} ->
             MakeShort(search_flag,
                       Parse("parse_atom", s, From(start), terminators,
                             search_descriptions, search_flag = "W", name_context))
        [] search_flag = "S" ->
             MakeBinary("select",
                        SelectPattern(s,
                                      Parse("parse_atom", s, From(start), terminators,
                                            search_descriptions, FALSE, name_context),
                                      terminators, search_descriptions, name_context))
        [] search_flag \in {"D", "R"} ->
             IF type = "-1" THEN Throw(start3, "Unknown dependency type")
             ELSE IF do_provides /\ broken
                  THEN Throw(start3, "Provides: cannot be broken")
             ELSE MakeShortDep(search_flag, do_provides, type, broken,
                               Parse("parse_atom", s, From(start3), terminators,
                                     search_descriptions, FALSE, name_context))
        [] OTHER ->
             ShortString(search_flag, parse_substr(s, start, terminators, TRUE))

\* A bare string, or "~" at the end of the text.
NameOrDescription(name, desc, search_descriptions) ==
  IF ~search_descriptions THEN StringM("name", name)
  ELSE OrM(StringM("name", name), StringM("description", desc))

BareString(substr, search_descriptions) ==
  IF substr.err # "" THEN Rethrow(substr)
  ELSE Ok(NameOrDescription(substr.str, substr.str, search_descriptions), substr.pos)

\* The '(' branch of parse_atom after the list.
CloseGroup(s, lst) ==
  IF lst.err # "" THEN lst
  ELSE IF ~(lst.pos # End(s) /\ At(s, lst.pos) = ")")
       THEN Throw(lst.pos, "Unmatched '('")
       ELSE [lst EXCEPT !.pos = @ + 1]

parse_atom(s, start0, terminators, search_descriptions, wide_context, name_context) ==
  LET start == parse_whitespace(s, start0)
      c == At(s, start)
      flagpos == parse_whitespace(s, start + 1)
  IN  IF start = End(s) \/ c = "|" \/ c = ")" \/ terminate(s, start, terminators)
      THEN Throw(start, "Can't search for \"\"")
      ELSE CASE c = "!" ->
                  MakeUnary("not",
                            Parse("parse_atom", s, From(start + 1), terminators,
                                  search_descriptions, wide_context, name_context))
             [] c = "(" ->
                  CloseGroup(s,
                             Parse("parse_condition_list", s, From(start + 1), <<>>,
                                   search_descriptions, wide_context, name_context))
             [] c = "?" ->
                  parse_function_style_matcher_tail(s, start + 1, terminators,
                      search_descriptions, wide_context, name_context)
             [] c = "~" ->
                  IF flagpos = End(s)
                  THEN Ok(NameOrDescription("~", "", search_descriptions), flagpos)
                  ELSE parse_short_form(s, flagpos, terminators, search_descriptions,
                                        wide_context, name_context)
             [] OTHER ->
                  BareString(parse_substr(s, start, terminators, TRUE),
                             search_descriptions)

\* The loop of parse_and_group: atom is the atom parsed last (From(start)
\* before the first), rval the group before it (NullM when there is none).
RECURSIVE AndGroupLoop(_, _, _, _, _, _, _)
AndGroupLoop(s, atom, terminators, search_descriptions, wide_context, name_context, rval) ==
  IF atom.err # "" THEN atom
  ELSE LET start == parse_whitespace(s, atom.pos)
           group == IF atom.m = NullM THEN rval
                    ELSE IF rval = NullM THEN atom.m
                    ELSE AndM(rval, atom.m)
       IN  IF /\ start # End(s)
              /\ At(s, start) # "|"
              /\ At(s, start) # ")"
              /\ ~terminate(s, start, terminators)
           THEN AndGroupLoop(s,
                             parse_atom(s, start, terminators, search_descriptions,
                                        wide_context, name_context),
                             terminators, search_descriptions, wide_context,
                             name_context, group)
           ELSE IF group = NullM THEN Throw(start, "Unexpected empty expression")
           ELSE Ok(group, start)

parse_and_group(s, start, terminators, search_descriptions, wide_context, name_context) ==
  AndGroupLoop(s, From(start), terminators, search_descriptions, wide_context,
               name_context, NullM)

\* The two groups the other way round.
MakeOrSwapped(grp, grp2) ==
  IF grp2.err # "" THEN grp2 ELSE Ok(OrM(grp2.m, grp.m), grp2.pos)

\* new pkg_or_matcher(grp.release(), grp2.release())
MakeOr(grp, grp2) ==
  IF grp2.err # "" THEN grp2 ELSE Ok(OrM(grp.m, grp2.m), grp2.pos)

\* parse_condition_list after its first and-group.
ConditionListTail(s, grp, terminators, search_descriptions, wide_context, name_context) ==
  IF grp.err # "" THEN grp
  ELSE LET start == parse_whitespace(s, grp.pos)
       IN  IF start # End(s) /\ At(s, start) # ")" /\ ~terminate(s, start, terminators)
           THEN IF At(s, start) = "|"
                THEN MakeOr(grp,
                            Parse("parse_condition_list", s, From(start + 1),
                                  terminators, search_descriptions, wide_context,
                                  name_context))
                ELSE Throw(start, "Badly formed expression")
           ELSE Ok(grp.m, start)

parse_condition_list(s, start, terminators, search_descriptions, wide_context, name_context) ==
  ConditionListTail(s,
                    parse_and_group(s, start, terminators, search_descriptions,
                                    wide_context, name_context),
                    terminators, search_descriptions, wide_context, name_context)

Parse(f, s, r, terminators, search_descriptions, wide_context, name_context) ==
  IF r.err # "" THEN r
  ELSE IF f = "parse_atom"
  THEN parse_atom(s, r.pos, terminators, search_descriptions, wide_context,
                  name_context)
  ELSE parse_condition_list(s, r.pos, terminators, search_descriptions,
                            wide_context, name_context)

(***************************************************************************)
(* parse_pattern: [m, pos, err, thrown, logged].  m is NullM where the     *)
(* function returns NULL; `thrown' tells whether an exception leaves the   *)
(* function, `logged' whether _error->Error was called; err is the message *)
(* of the exception that was caught.                                       *)
(***************************************************************************)
ParseResult(m, pos, err, thrown, logged) ==
  [m |-> m, pos |-> pos, err |-> err, thrown |-> thrown, logged |-> logged]

\* A handler that logs whatever flag_errors says.
CatchAndLog(pos, err, flag_errors) == ParseResult(NullM, pos, err, FALSE, TRUE)

\* catch(CompilationException e)
CatchCompilationException(pos, err, flag_errors) ==
  ParseResult(NullM, pos, err, FALSE, flag_errors)

\* A try block that never looks at require_full_parse.
FullParseUnchecked(s, rval, flag_errors, require_full_parse) ==
  IF rval.err # "" THEN CatchCompilationException(rval.pos, rval.err, flag_errors)
  ELSE ParseResult(rval.m, parse_whitespace(s, rval.pos), "", FALSE, FALSE)

\* The try block of parse_pattern after parse_condition_list.
FullParse(s, rval, flag_errors, require_full_parse) ==
  LET pos == parse_whitespace(s, rval.pos)
  IN  IF rval.err # "" THEN CatchCompilationException(rval.pos, rval.err, flag_errors)
      ELSE IF require_full_parse /\ pos # End(s)
           THEN CatchCompilationException(pos, "Unexpected ')'", flag_errors)
      ELSE ParseResult(rval.m, pos, "", FALSE, FALSE)

parse_pattern(s, start0, terminators, search_descriptions, flag_errors, require_full_parse) ==
  LET start == SkipSpaceUnlessTerminator(s, start0, terminators)
  IN  IF start = End(s) THEN ParseResult(NullM, start, "", FALSE, FALSE)
      ELSE FullParse(s,
                     Parse("parse_condition_list", s, From(start), terminators,
                           search_descriptions, TRUE, EmptyEnv),
                     flag_errors, require_full_parse)

(***************************************************************************)
(* The inputs of parse_pattern.                                            *)
(***************************************************************************)
\* Patterns together with terminators and flags of every kind: the forms of
\* the grammar, and one pattern for each CompilationException.
ParseCorpus ==
  <<"!a b c | d | e", "a b | c", "a | b | c", "!a | b", "!(a b)", "!!a", "(a | b) c",
    "apt", "\"a b\" c", "a~ b", "~n apt", "~i", "~v ~M", "~T", "~F", "~dfoo", "~",
    "?installed", "?name(apt)", "?Name(Apt)", "?version(CURRENT)", "?version(1.0)",
    "?action(purge)", "?priority(extra)", "~pextra", "~ainstall", "~BDepends",
    "?depends(a)", "?broken-depends", "?broken-depends(a)", "?reverse-depends(a)",
    "?broken-reverse-recommends(a)", "?reverse-broken-suggests(a)",
    "?reverse-provides(a)", "?provides(a)", "~Da", "~DB a", "~DBsuggests:a",
    "~Dprovides:a", "~Rprovides: a", "~Rrecommends:a", "~Ca", "~Pa", "~S ~i ~V1",
    "?narrow(~i, ?version(1.0))", "?and(a, b)", "?or(a, b)", "?not(a)", "?widen(a)", "~Wa",
    "?all-versions(~i)", "?any-version(~i)", "?for x: ?depends(?=x)",
    "?for x: ?bind(x, ~i)", "?for x: ?x:installed", "?for X: ?=x", "?for x: ?=X",
    "?for x: ?bind(X, ~i)", "?for x: ?for y: ?depends(?=x ?=y)",
    "(?for x: ?=x) ?=x", "(?for x: ~i) ?bind(x, ~i)", "(?for x: ~i) ?x:installed",
    "?=x", "?for x: (?for y: ?=y) ?=y", "?for x: ?depends(?for y: ?=x) | ?=y",
    "a, b", "a,", "a ;; b", "a ;", "a) b", "a )", "(a", "()", "a |", "| a", "a b)",
    "?foo", "?foo-bar(a)", "?broken-foo", "?reverse-foo(a)", "~Dfoo:a", "~Bfoo",
    "~DBprovides:a", "?action(fly)", "~afly", "?priority(high)", "~phigh", "~Xa",
    "\"abc", "?name(apt", "?name apt", "?and(a b)", "?depends(?any-version(a))",
    "~D?all-versions(a)", "?x:y:installed", "?=", "?for x", "?for x ~i", "!", "~D",
    "  ", "", " a ", "?narrow(?all-versions(a), b)",
    "?for x: ?=x", "?bind(x, ?=x)", "?for x: ?bind(x, ?=x)",
    "?for x: ?for y: ?bind(x, ?=y)", "?for x: ?bind(y, ?=y)",
    "?for x: ?for y: ?=x", "?for x: ?for y: ?=y", "?for x: ?for x: ?=x",
    "?for x: ?for x: ?for y: ?=y", "?for x: ?for x: ?for y: ?=x",
    "?for x: ?for y: ?for x: ?=y",
    "?for X: ?=x", "?for x: ?=X", "?for X: ?=X", "?for x: ?bind(X, ?true)",
    "?for X: ?bind(x, ?true)", "?for x: ?X:true", "?for X: ?x:true",
    "?for Xy: ?xY:true", "a=", "a=b", "a=>b", "a;">>

\* Every short form, each with a function-style pattern for the same
\* matcher.
ShortForm(short, long) == [short |-> short, long |-> long]

ShortForms ==
  <<ShortForm("~v", "?virtual"), ShortForm("~b", "?broken"),
    ShortForm("~g", "?garbage"), ShortForm("~c", "?config-files"),
    ShortForm("~i", "?installed"), ShortForm("~E", "?essential"),
    ShortForm("~M", "?automatic"), ShortForm("~N", "?new"),
    ShortForm("~U", "?upgradable"), ShortForm("~o", "?obsolete"),
    ShortForm("~F", "?false"), ShortForm("~T", "?true"),
    ShortForm("~Amain", "?archive(main)"), ShortForm("~dfoo", "?description(foo)"),
    ShortForm("~Gadmin", "?tag(admin)"), ShortForm("~mjoe", "?maintainer(joe)"),
    ShortForm("~n apt", "?name(apt)"), ShortForm("~Odebian", "?origin(debian)"),
    ShortForm("~slibs", "?section(libs)"), ShortForm("~tmail", "?task(mail)"),
    ShortForm("~V1.0", "?version(1.0)"), ShortForm("~VCURRENT", "?version(CURRENT)"),
    ShortForm("~ainstall", "?action(install)"), ShortForm("~apurge", "?action(purge)"),
    ShortForm("~pextra", "?priority(extra)"),
    ShortForm("~Bdepends", "?broken-depends"), ShortForm("~BSuggests", "?broken-suggests"),
    ShortForm("~Pmta", "?provides(mta)"), ShortForm("~Ca", "?conflicts(a)"),
    ShortForm("~W~V2.0", "?widen(?version(2.0))"),
    ShortForm("~W?any-version(~i)", "?widen(?any-version(?installed))"),
    ShortForm("~S ~i ~V1", "?narrow(?installed, ?version(1))"),
    ShortForm("~Da", "?depends(a)"), ShortForm("~D~i", "?depends(?installed)"),
    ShortForm("~DB a", "?broken-depends(a)"),
    ShortForm("~Dpredepends:a", "?predepends(a)"),
    ShortForm("~Drecommends:a", "?recommends(a)"),
    ShortForm("~DBsuggests:a", "?broken-suggests(a)"),
    ShortForm("~Dbreaks:~i", "?breaks(?installed)"),
    ShortForm("~Dreplaces:a", "?replaces(a)"),
    ShortForm("~Dprovides:a", "?provides(a)"),
    ShortForm("~Ra", "?reverse-depends(a)"), ShortForm("~RBa", "?broken-reverse-depends(a)"),
    ShortForm("~Rrecommends:a", "?reverse-recommends(a)"),
    ShortForm("~RBconflicts:a", "?reverse-broken-conflicts(a)"),
    ShortForm("~Rprovides: a", "?reverse-provides(a)"),
    ShortForm("~D(a | ~i)", "?depends(a | ?installed)"),
    ShortForm("~P!~v", "?provides(?not(?virtual))")>>

\* The terminators a caller passes.
TerminatorChoices == << <<>>, <<",">>, <<";;">>, <<"=>">> >>

(***************************************************************************)
(* Nested patterns: a leaf enclosed in the forms that take a pattern as    *)
(* their argument.  A wrapper is the text before and after the argument,   *)
(* the context it gives the argument ("narrow", "wide" or "same"), whether *)
(* it is itself ?all-versions or ?any-version, and whether it binds x.     *)
(***************************************************************************)
Wrapper(pre, post, context, versions, binds) ==
  [pre |-> pre, post |-> post, context |-> context, versions |-> versions,
   binds |-> binds]

Wrappers ==
  <<Wrapper("?depends(", ")", "narrow", FALSE, FALSE),
    Wrapper("?reverse-depends(", ")", "narrow", FALSE, FALSE),
    Wrapper("?provides(", ")", "narrow", FALSE, FALSE),
    Wrapper("?reverse-provides(", ")", "narrow", FALSE, FALSE),
    Wrapper("?narrow(?true, ", ")", "narrow", FALSE, FALSE),
    Wrapper("?all-versions(", ")", "narrow", TRUE, FALSE),
    Wrapper("?any-version(", ")", "narrow", TRUE, FALSE),
    Wrapper("?widen(", ")", "wide", FALSE, FALSE),
    Wrapper("~W", "", "wide", FALSE, FALSE),
    Wrapper("?and(?true, ", ")", "same", FALSE, FALSE),
    Wrapper("?or(", ", ?false)", "same", FALSE, FALSE),
    Wrapper("?not(", ")", "same", FALSE, FALSE),
    Wrapper("?for x: ", "", "same", FALSE, TRUE),
    Wrapper("?for x: ?bind(x, ", ")", "same", FALSE, TRUE),
    Wrapper("(", ")", "same", FALSE, FALSE),
    Wrapper("?and((?for x: ?true), ", ")", "same", FALSE, FALSE)>>

\* The leaves: the text, whether it needs a wide context, whether it
\* refers to x.
Leaf(leaftext, versions, refers) ==
  [text |-> leaftext, versions |-> versions, refers |-> refers]

Leaves ==
  <<Leaf("?all-versions(?true)", TRUE, FALSE),
    Leaf("?any-version(?true)", TRUE, FALSE),
    Leaf("?=x", FALSE, TRUE),
    Leaf("?bind(x, ?true)", FALSE, TRUE),
    Leaf("?x:true", FALSE, TRUE)>>

\* The shapes are numbered: 0 .. MaxShape covers every leaf under every
\* nesting of at most two wrappers.
MaxShape == 1364

RECURSIVE ShapeWrappers(_)
ShapeWrappers(w) ==
  IF w = 0 THEN <<>>
  ELSE <<((w - 1) % Len(Wrappers)) + 1>> \o ShapeWrappers((w - 1) \div Len(Wrappers))

\* [wrappers, leaf]: the wrappers from the outermost to the innermost.
ShapeOf(k) ==
  [wrappers |-> ShapeWrappers(k \div Len(Leaves)), leaf |-> (k % Len(Leaves)) + 1]

NoShape == [wrappers |-> <<>>, leaf |-> 0]

RECURSIVE WrapText(_, _)
WrapText(ws, inner) ==
  IF ws = <<>> THEN inner
  ELSE Wrappers[Head(ws)].pre \o WrapText(Tail(ws), inner) \o Wrappers[Head(ws)].post

ShapeText(sh) == WrapText(sh.wrappers, Leaves[sh.leaf].text)

(***************************************************************************)
(* The patterns that are evaluated: every combinator, and the leaves the   *)
(* catalogs tell apart.                                                    *)
(***************************************************************************)
EvalCorpus ==
  <<"apt", "a", "~nself | ~nmta", "?installed", "~v", "?true", "?false", "!~i",
    "?not(?virtual)", "!~v ~i", "?section(admin)", "?version(2.0)", "?version(CURRENT)",
    "?depends(?name(libapt))", "?depends(~i)", "~Dself", "~D~v", "?predepends(~v)",
    "?recommends(?version(1.0))", "?conflicts(?true)", "?broken-depends",
    "?broken-depends(?true)", "?broken-predepends", "~DB~v",
    "?reverse-depends(?installed)", "~R~i", "?reverse-predepends(?true)",
    "?broken-reverse-depends(?true)", "?reverse-recommends(?true)",
    "?provides(?virtual)", "~P~v", "?provides(?name(ghost))", "?provides(~i)",
    "~Dprovides:~nmta", "?reverse-provides(?true)", "?reverse-provides(~i)",
    "~Rprovides:?section(libs)",
    "?all-versions(?installed)", "?any-version(?installed)", "?all-versions(?true)",
    "?any-version(?true)", "!?all-versions(?true)", "?widen(?any-version(~i))",
    "?depends(?widen(?all-versions(?version(1.0))))", "~W~V2.0", "?widen(~v)",
    "?narrow(?installed, ?version(1.0))", "~S ~i ~V1", "?narrow(?true, ?depends(~v))",
    "?and(~i, ?depends(?true))", "?or(~v, ~i)", "a | b", "?version(1) ?section(m)",
    "?for x: ?depends(?=x)", "?for x: ?installed", "!?for x: ~i", "?for x: ~v",
    "?for x: ?depends(?depends(?=x))", "?for x: ?reverse-depends(?=x)",
    "?for x: ?for y: ?depends(?=x)", "?for x: ?depends(?for y: ?depends(?=x ?=y))",
    "?for x: ?depends(?for y: ?=y)", "?for x: ?x:installed",
    "?for x: ?depends(?bind(x, ?installed))", "?for x: ?depends(?x:depends(?=x))",
    "?for x: ?provides(?reverse-provides(?=x))", "?for x: ?widen(?=x)",
    "?for x: ?for x: ?depends(?=x)", "?for x: ?all-versions(?depends(?bind(x, ~i)))",
    "?for x: ?any-version(?=x)", "?for x: ?widen(?all-versions(?=x))",
    "!(~i | ~v)", "!(~i ?version(2.0))", "?widen(?widen(?version(2.0)))",
    "?narrow(?version(2.0), ?installed)",
    "?reverse-depends(?installed ?section(admin))",
    "?reverse-predepends(?installed ?section(admin))",
    "?depends(?for x: ~W?bind(x, ?all-versions(~i)))",
    "~D?for x: ~W?x:any-version(~i)",
    "?for x: ~W?bind(x, ?all-versions(~i))">>

NoCall == [mode |-> "none", pkg |-> "", ver |-> NoVer]
NoResult == [hit |-> FALSE, groups |-> <<>>, st |-> <<>>, status |-> "none"]
NoOutcome == [matches |-> NoResult, get_match |-> NoResult]
NotParsed == ParseResult(NullM, 1, "", FALSE, FALSE)
NoFlags ==
  [search_descriptions |-> FALSE, flag_errors |-> FALSE, require_full_parse |-> FALSE]

\* The packages of the catalog and the versions a caller passes with one.
Packages == {C.pkgs[i] : i \in 1..Len(C.pkgs)}
VersionsOf(pkg) == {VersionList(pkg)[i] : i \in 1..Len(VersionList(pkg))} \cup {NoVer}

\* regmatch_t matches[30]: the hard limit of get_string_match.
MatchesLen == 30

\* The expressions with groups: "(w1)|(w2)|..." for distinct words, group k
\* around the k-th alternative.
RxWords == {"a", "b", "ab"}
RxPatterns ==
  {<<w>> : w \in RxWords}
  \cup {<<v, w>> : v, w \in RxWords}
  \cup {<<u, v, w>> : u, v, w \in RxWords}
RxDistinct(alts) == \A i, j \in 1..Len(alts) : alts[i] = alts[j] => i = j
RxSubjects == {"", "a", "b", "ab", "ba", "xb", "B", "c"}

NoSlot == [rm_so |-> -1, rm_eo |-> -1]
RxMatchAt(w, s, i) ==
  i + Len(w) - 1 <= Len(s) /\ LowerStr(SubSeq(s, i, i + Len(w) - 1)) = LowerStr(w)
RxStarts(alts, s) ==
  {i \in 1..(Len(s) + 1) : \E k \in 1..Len(alts) : RxMatchAt(alts[k], s, i)}

\* regexec(&pattern_group, s, 30, matches, 0) with REG_ICASE|REG_EXTENDED:
\* the leftmost match and there the longest; slot 0 is the whole match,
\* slot k the k-th group, with rm_so = -1 when the group took no part.
regexec(alts, s) ==
  IF RxStarts(alts, s) = {} THEN [matched |-> FALSE, pmatch |-> <<>>]
  ELSE LET i == CHOOSE a \in RxStarts(alts, s) : \A b \in RxStarts(alts, s) : a <= b
           at == {k \in 1..Len(alts) : RxMatchAt(alts[k], s, i)}
           k == CHOOSE a \in at : \A b \in at : Len(alts[a]) >= Len(alts[b])
           whole == [rm_so |-> i - 1, rm_eo |-> i - 1 + Len(alts[k])]
       IN  [matched |-> TRUE,
            pmatch |-> [j \in 1..MatchesLen |->
                          IF j = 1 \/ j = k + 1 THEN whole ELSE NoSlot]]

\* A match_result that takes every slot that is set.
RECURSIVE match_result_all(_, _, _, _)
match_result_all(s, pmatch, matches_len, i) ==
  IF ~(i < matches_len) THEN <<>>
  ELSE (IF pmatch[i + 1].rm_so >= 0
        THEN <<SubSeq(s, pmatch[i + 1].rm_so + 1, pmatch[i + 1].rm_eo)>>
        ELSE <<>>)
       \o match_result_all(s, pmatch, matches_len, i + 1)

\* match_result(s, pmatch, matches_len):
\* for(i = 0; i < matches_len && pmatch[i].rm_so >= 0; ++i) push the group
RECURSIVE match_result(_, _, _, _)
match_result(s, pmatch, matches_len, i) ==
  IF ~(i < matches_len /\ pmatch[i + 1].rm_so >= 0) THEN <<>>
  ELSE <<SubSeq(s, pmatch[i + 1].rm_so + 1, pmatch[i + 1].rm_eo)>>
       \o match_result(s, pmatch, matches_len, i + 1)

NoRx == [phase |-> "none", alts |-> <<>>, s |-> "", matched |-> FALSE,
         pmatch |-> <<>>, groups |-> <<>>]

\* The user tags of the cache's extended state: deref_user_tag by tag id, and
\* get_ext_state(pkg).user_tags in the order of the std::set.
UserTagNames == <<"work", "home", "hold">>
UserTagIds == 1..Len(UserTagNames)
deref_user_tag(tag) == UserTagNames[tag]
user_tags(pkg) ==
  CASE pkg = "apt" -> <<1, 2>>
    [] pkg = "libapt" -> <<2, 3>>
    [] pkg = "two" -> <<3>>
    [] OTHER -> <<>>

\* A match_result pointer: NULL, or the groups of the result it points to.
NullMatch == [null |-> TRUE, groups |-> <<>>]
MatchOf(groups) == [null |-> FALSE, groups |-> groups]

\* pkg_string_matcher::get_string_match on a tag name: NULL when the
\* expression does not match.
TagStringMatch(re, tag) ==
  IF string_matches(re, deref_user_tag(tag))
  THEN MatchOf(get_string_match(re, deref_user_tag(tag)))
  ELSE NullMatch

\* The values a match_result pointer of this matcher can have.
MatchResults == {NullMatch} \cup {TagStringMatch(parsed.m.re, g) : g \in UserTagIds}

\* std::map<user_tag, match_result *>: the keys present and what they map
\* to; the constructor leaves the map empty.
NoEntry == [present |-> FALSE, second |-> NullMatch]
Entry(result) == [present |-> TRUE, second |-> result]
EmptyMemo == [g \in UserTagIds |-> NoEntry]

\* The callers that hold a pointer to the matcher.
Threads == {"t1", "t2"}
IdleThread ==
  [pc |-> "idle", op |-> "", pkg |-> "", it |-> 1, found |-> NoEntry,
   result |-> NullMatch, rval |-> NullMatch]

Init ==
  /\ rx = NoRx
  /\ cached_matches = EmptyMemo
  /\ threads = [t \in Threads |-> IdleThread]
  /\ cat \in 1..Len(Catalogs)
  /\ phase = "idle"
  /\ text = ""
  /\ shape = NoShape
  /\ terms = <<>>
  /\ flags = NoFlags
  /\ parsed = NotParsed
  /\ call = NoCall
  /\ outcome = NoOutcome

\* parse_pattern(start, end, terminators, search_descriptions, flag_errors,
\* require_full_parse) on the text t, from its beginning.
ParsePattern(t, sh, terminators, search_descriptions, flag_errors, require_full_parse) ==
  /\ phase = "idle"
  /\ phase' = "parsed"
  /\ text' = t
  /\ shape' = sh
  /\ terms' = terminators
  /\ flags' = [search_descriptions |-> search_descriptions,
               flag_errors |-> flag_errors,
               require_full_parse |-> require_full_parse]
  /\ parsed' = parse_pattern(t, 1, terminators, search_descriptions, flag_errors,
                             require_full_parse)
  /\ UNCHANGED <<cat, call, outcome, cached_matches, threads, rx>>

\* The other facade function's result stays known while the arguments are
\* the same.
Kept(c, op) == IF call = c THEN outcome[op] ELSE NoResult

\* apply_matcher(matcher, pkg, ver, cache, records) and
\* apply_matcher(matcher, pkg, cache, records)
ApplyMatcher(mode, pkg, ver) ==
  /\ phase \in {"parsed", "evaluated"}
  /\ parsed.m # NullM
  /\ phase' = "evaluated"
  /\ call' = [mode |-> mode, pkg |-> pkg, ver |-> ver]
  /\ outcome' = [matches |-> Facade(parsed.m, "matches", mode, pkg, ver),
                 get_match |-> Kept(call', "get_match")]
  /\ UNCHANGED <<cat, text, shape, terms, flags, parsed, cached_matches, threads,
               rx>>

\* get_match(matcher, pkg, ver, cache, records) and
\* get_match(matcher, pkg, cache, records)
GetMatch(mode, pkg, ver) ==
  /\ phase \in {"parsed", "evaluated"}
  /\ parsed.m # NullM
  /\ phase' = "evaluated"
  /\ call' = [mode |-> mode, pkg |-> pkg, ver |-> ver]
  /\ outcome' = [matches |-> Kept(call', "matches"),
                 get_match |-> Facade(parsed.m, "get_match", mode, pkg, ver)]
  /\ UNCHANGED <<cat, text, shape, terms, flags, parsed, cached_matches, threads,
               rx>>

\* The caller deletes the matcher and is free to parse again.
Release ==
  /\ phase # "idle"
  /\ phase' = "idle"
  /\ text' = ""
  /\ shape' = NoShape
  /\ terms' = <<>>
  /\ flags' = NoFlags
  /\ parsed' = NotParsed
  /\ call' = NoCall
  /\ outcome' = NoOutcome
  /\ cached_matches' = EmptyMemo
  /\ UNCHANGED <<cat, threads, rx>>

\* The arguments of a facade call: (pkg, ver) with ver a version of pkg or
\* the end iterator, or pkg alone.
CallArgs ==
  {[mode |-> "ver", pkg |-> p, ver |-> v] : p \in Packages, v \in 0..Len(C.ver)}
  \cup {[mode |-> "pkg", pkg |-> p, ver |-> NoVer] : p \in Packages}

ValidCall(c) == c.mode = "pkg" \/ c.ver \in VersionsOf(c.pkg)

\* Patterns are parsed for evaluation the way the search dialogs do.
Next ==
  \/ \E i \in 1..Len(EvalCorpus) :
       ParsePattern(EvalCorpus[i], NoShape, <<>>, FALSE, TRUE, TRUE)
  \/ \E c \in CallArgs : ValidCall(c) /\ ApplyMatcher(c.mode, c.pkg, c.ver)
  \/ \E c \in CallArgs : ValidCall(c) /\ GetMatch(c.mode, c.pkg, c.ver)
  \/ Release

Spec == Init /\ [][Next]_vars

\* The parser alone, on every input.
ParserInit == Init /\ cat = 1

ParserNext ==
  \/ \E i \in 1..Len(ParseCorpus), j \in 1..Len(TerminatorChoices),
        sd \in BOOLEAN, fe \in BOOLEAN, rfp \in BOOLEAN :
       ParsePattern(ParseCorpus[i], NoShape, TerminatorChoices[j], sd, fe, rfp)
  \/ \E k \in 0..MaxShape, fe \in BOOLEAN :
       ParsePattern(ShapeText(ShapeOf(k)), ShapeOf(k), <<>>, FALSE, fe, TRUE)
  \/ \E i \in 1..Len(ShortForms), sd \in BOOLEAN :
       ParsePattern(ShortForms[i].short, NoShape, <<>>, sd, TRUE, TRUE)
  \/ Release

ParserSpec == ParserInit /\ [][ParserNext]_vars

(***************************************************************************)
(* pkg_user_tag_matcher shared by two callers (specification TagSpec).     *)
(* The member map is read and written without a lock, so every access is   *)
(* split in its beginning and its end: an access that overlaps a write of  *)
(* another caller is a data race, whose outcome is any value of the type.  *)
(***************************************************************************)
TagCorpus == <<"?user-tag(work)", "?user-tag(o)", "?user-tag(zzz)">>

Others(t) == Threads \ {t}
Writing(t) == threads[t].pc = "storing"
Accessing(t) == threads[t].pc \in {"finding", "storing"}

\* Two callers inside std::map at once, one of them writing.
DataRace == \E t \in Threads : Writing(t) /\ \E u \in Others(t) : Accessing(u)

CurrentTag(t) == user_tags(threads[t].pkg)[threads[t].it]
TagVarsUnchanged ==
  UNCHANGED <<cat, phase, text, shape, terms, flags, parsed, call, outcome, rx>>

\* matches(pkg, ver, ...) or get_match(pkg, ver, ...) enters
\* noncopy_get_match: it = user_tags.begin()
CallUserTag(t, op, pkg) ==
  /\ phase = "parsed" /\ parsed.m # NullM /\ parsed.m.kind = "user_tag"
  /\ threads[t].pc = "idle"
  /\ threads' = [threads EXCEPT ![t] =
                   [IdleThread EXCEPT !.pc = "loop", !.op = op, !.pkg = pkg]]
  /\ UNCHANGED cached_matches
  /\ TagVarsUnchanged

\* it != user_tags.end(): cached_matches.find(*it) begins
BeginFind(t) ==
  /\ threads[t].pc = "loop"
  /\ threads[t].it <= Len(user_tags(threads[t].pkg))
  /\ threads' = [threads EXCEPT ![t].pc = "finding"]
  /\ UNCHANGED cached_matches
  /\ TagVarsUnchanged

\* it == user_tags.end(): return NULL
LoopEnd(t) ==
  /\ threads[t].pc = "loop"
  /\ threads[t].it > Len(user_tags(threads[t].pkg))
  /\ threads' = [threads EXCEPT ![t].pc = "return", ![t].rval = NullMatch]
  /\ UNCHANGED cached_matches
  /\ TagVarsUnchanged

\* What find gives: the entry of the key, or anything when another caller
\* is writing the map meanwhile.
FindOutcomes(t) ==
  IF \E u \in Others(t) : Writing(u)
  THEN {NoEntry} \cup {Entry(r) : r \in MatchResults}
  ELSE {cached_matches[CurrentTag(t)]}

\* find returns; if(found != cached_matches.end() && found->second != NULL)
\* return found->second;
EndFind(t) ==
  /\ threads[t].pc = "finding"
  /\ \E found \in FindOutcomes(t) :
       threads' = [threads EXCEPT
                     ![t].found = found,
                     ![t].pc = IF found.present /\ ~found.second.null
                               THEN "return" ELSE "compute",
                     ![t].rval = IF found.present /\ ~found.second.null
                                 THEN found.second ELSE @]
  /\ UNCHANGED cached_matches
  /\ TagVarsUnchanged

\* result = get_string_match(cache.deref_user_tag(*it).c_str()), and
\* cached_matches[*it] = result begins
BeginStore(t) ==
  /\ threads[t].pc = "compute"
  /\ threads' = [threads EXCEPT
                   ![t].result = TagStringMatch(parsed.m.re, CurrentTag(t)),
                   ![t].pc = "storing"]
  /\ UNCHANGED cached_matches
  /\ TagVarsUnchanged

\* The map after the assignment: the key holds result, or any map when
\* another caller is inside the map meanwhile.
StoreOutcomes(t) ==
  IF \E u \in Others(t) : Accessing(u)
  THEN [UserTagIds -> {NoEntry, cached_matches[CurrentTag(t)],
                       Entry(threads[t].result)}]
  ELSE {[cached_matches EXCEPT ![CurrentTag(t)] = Entry(threads[t].result)]}

\* the assignment ends; if(result != NULL) return result; else ++it
EndStore(t) ==
  /\ threads[t].pc = "storing"
  /\ cached_matches' \in StoreOutcomes(t)
  /\ threads' = [threads EXCEPT
                   ![t].pc = IF threads[t].result.null THEN "loop" ELSE "return",
                   ![t].it = IF threads[t].result.null THEN @ + 1 ELSE @,
                   ![t].rval = IF threads[t].result.null THEN @ ELSE threads[t].result]
  /\ TagVarsUnchanged

\* matches returns noncopy_get_match(...) != NULL, get_match a copy of the
\* result; the caller keeps what it got until its next call.
ReturnUserTag(t) ==
  /\ threads[t].pc = "return"
  /\ threads' = [threads EXCEPT ![t].pc = "idle"]
  /\ UNCHANGED cached_matches
  /\ TagVarsUnchanged

\* The matcher is deleted when no caller is inside it.
DeleteMatcher == (\A t \in Threads : threads[t].pc = "idle") /\ Release

TagInit == Init /\ cat = 1

TagNext ==
  \/ \E i \in 1..Len(TagCorpus) :
       ParsePattern(TagCorpus[i], NoShape, <<>>, FALSE, TRUE, TRUE)
  \/ \E t \in Threads, op \in {"matches", "get_match"}, p \in Packages :
       CallUserTag(t, op, p)
  \/ \E t \in Threads : BeginFind(t)
  \/ \E t \in Threads : LoopEnd(t)
  \/ \E t \in Threads : EndFind(t)
  \/ \E t \in Threads : BeginStore(t)
  \/ \E t \in Threads : EndStore(t)
  \/ \E t \in Threads : ReturnUserTag(t)
  \/ DeleteMatcher

TagSpec == TagInit /\ [][TagNext]_vars

(***************************************************************************)
(* pkg_string_matcher on expressions with groups (specification RxSpec).   *)
(***************************************************************************)
RxVarsUnchanged ==
  UNCHANGED <<cat, phase, text, shape, terms, flags, parsed, call, outcome,
              cached_matches, threads>>

\* pkg_string_matcher(_pattern): compile
RxCompile(alts) ==
  /\ rx.phase = "none"
  /\ rx' = [NoRx EXCEPT !.phase = "compiled", !.alts = alts]
  /\ RxVarsUnchanged

\* get_string_match(s): NULL unless regexec matches, else
\* new match_result(s, matches, 30)
GetStringMatch(s) ==
  /\ rx.phase \in {"compiled", "matched"}
  /\ LET r == regexec(rx.alts, s)
     IN  rx' = [rx EXCEPT !.phase = "matched", !.s = s,
                          !.matched = r.matched, !.pmatch = r.pmatch,
                          !.groups = IF r.matched
                                     THEN match_result(s, r.pmatch, MatchesLen, 0)
                                     ELSE <<>>]
  /\ RxVarsUnchanged

\* ~pkg_string_matcher()
RxFree ==
  /\ rx.phase # "none"
  /\ rx' = NoRx
  /\ RxVarsUnchanged

RxInit == Init /\ cat = 1

RxNext ==
  \/ \E alts \in RxPatterns : RxDistinct(alts) /\ RxCompile(alts)
  \/ \E s \in RxSubjects : GetStringMatch(s)
  \/ RxFree

RxSpec == RxInit /\ [][RxNext]_vars

(***************************************************************************)
(* Evaluation (specification Spec).                                        *)
(***************************************************************************)
Evaluated(op) == phase = "evaluated" /\ outcome[op].status # "none"
BothEvaluated == Evaluated("matches") /\ Evaluated("get_match")

\* C1: in version mode, get_match(M, P, V) returns a result (for a Not node
\* the empty one) exactly when apply_matcher(M, P, V) returns true, for
\* every parsed matcher M, package P, version V or no version, and catalog.
C1_VersionModeAgreement ==
  (BothEvaluated /\ call.mode = "ver")
    => (outcome.get_match.hit <=> outcome.matches.hit)

\* C2: in package mode, get_match(M, P) returns a result exactly when
\* apply_matcher(M, P) returns true, also for a package with no version.
C2_PackageModeAgreement ==
  (BothEvaluated /\ call.mode = "pkg")
    => (outcome.get_match.hit <=> outcome.matches.hit)

\* C3: no evaluation of a parsed matcher from the empty stack finds the
\* index of an Equal or Bind node at or above the size of the stack: the
\* eassert of those nodes never fails.
C3_IndexBelowStackSize ==
  outcome.matches.status # "assert" /\ outcome.get_match.status # "assert"

C3_Witness ==
  /\ Evaluated("matches") /\ Evaluated("get_match")
  /\ text = "?for x: ?depends(?for y: ?depends(?=x ?=y))"
  /\ outcome.matches.hit /\ outcome.get_match.hit

\* C4: a facade call leaves the stack empty, as it was on entry, whether
\* the matcher matched or not; and an Explicit node pops what it pushed
\* also when an exception unwinds through it.
C4_StackDiscipline ==
  /\ outcome.matches.st = <<>> /\ outcome.get_match.st = <<>>
  /\ \A p \in Packages, op \in {"matches", "get_match"} :
       LET r == Eval(ExplicitM(OrM(LeafM("false"), BindM(LeafM("true"), 1))),
                     op, "pkg", p, NoVer, <<>>, 8)
       IN  r.status = "assert" /\ r.st = <<>>

C4_Witness ==
  /\ BothEvaluated
  /\ text = "?for x: ?depends(?for y: ?depends(?=x ?=y))"
  /\ call.pkg = "a" /\ call.mode = "pkg"
  /\ ~outcome.matches.hit /\ ~outcome.get_match.hit

\* C5: every evaluation of a parsed matcher ends within the nesting its
\* tree allows, also on the catalog whose dependencies and provides form
\* cycles.
C5_Terminates ==
  outcome.matches.status # "fuel" /\ outcome.get_match.status # "fuel"

C5_Witness ==
  /\ BothEvaluated
  /\ cat = 2 /\ call.pkg = "mta"
  /\ text = "?for x: ?depends(?depends(?=x))"
  /\ outcome.matches.hit /\ outcome.matches.status = "ok"

(***************************************************************************)
(* Parsing (specification ParserSpec).                                     *)
(***************************************************************************)
Parsed == phase = "parsed"
Failed == Parsed /\ parsed.err # ""
WideError == "must be used in a wide context"

\* Whether ?all-versions or ?any-version stands in a context that is not
\* wide, read off the nesting: the wrappers from the outermost on, then the
\* leaf, starting from `wide'.
RECURSIVE VersionsOutsideWide(_, _, _)
VersionsOutsideWide(ws, leaf, wide) ==
  IF ws = <<>> THEN Leaves[leaf].versions /\ ~wide
  ELSE LET w == Wrappers[Head(ws)]
       IN  \/ w.versions /\ ~wide
           \/ VersionsOutsideWide(Tail(ws), leaf,
                                  IF w.context = "same" THEN wide
                                  ELSE w.context = "wide")

ShapeParsed == Parsed /\ shape # NoShape
ShapeNarrow == VersionsOutsideWide(shape.wrappers, shape.leaf, TRUE)
ShapeBinds == \E i \in 1..Len(shape.wrappers) : Wrappers[shape.wrappers[i]].binds

\* C6: a pattern in which ?all-versions or ?any-version stands inside
\* ?depends, ?reverse-depends, ?provides, ?reverse-provides, ?narrow,
\* ?all-versions or ?any-version with no ?widen or ~W in between is rejected
\* with the wide-context error; at the top level, inside ?widen or ~W, and
\* through ?and, ?or, ?not, ?for, ?bind and parentheses it is accepted.
C6_WideContext ==
  ShapeParsed =>
    /\ ShapeNarrow <=> (parsed.err = WideError)
    /\ ShapeNarrow => parsed.m = NullM
    /\ (~ShapeNarrow /\ Leaves[shape.leaf].versions)
         => (parsed.m # NullM /\ parsed.err = "")

\* ?widen(?depends(?all-versions(?true))) is rejected ...
C6_Witness ==
  /\ ShapeParsed
  /\ shape = [wrappers |-> <<8, 1>>, leaf |-> 1]
  /\ parsed.m = NullM /\ parsed.err = WideError

Loose ==
  parse_pattern(text, 1, terms, flags.search_descriptions, flags.flag_errors, FALSE)

\* C8: with require_full_parse set, a matcher is returned only when the
\* whole input but trailing whitespace was consumed, and an unconsumed
\* remainder is the compile error "Unexpected ')'"; with it clear, the
\* matcher of the parsed prefix is returned and the position is that of the
\* first unconsumed character: a ')' or the beginning of a terminator.
C8_RequireFullParse ==
  Parsed =>
    /\ (flags.require_full_parse /\ parsed.m # NullM) => parsed.pos = End(text)
    /\ (flags.require_full_parse /\ Loose.m # NullM /\ Loose.pos # End(text))
         => (parsed.m = NullM /\ parsed.err = "Unexpected ')'"
             /\ parsed.pos = Loose.pos)
    /\ (flags.require_full_parse /\ (Loose.m = NullM \/ Loose.pos = End(text)))
         => parsed = Loose
    /\ (~flags.require_full_parse /\ parsed.m # NullM)
         => \/ parsed.pos = End(text)
            \/ At(text, parsed.pos) = ")"
            \/ terminate(text, parsed.pos, terms)

C8_Witness ==
  /\ Parsed /\ flags.require_full_parse
  /\ text = "a, b" /\ terms = <<",">>
  /\ parsed.m = NullM /\ parsed.err = "Unexpected ')'" /\ parsed.pos = 2

\* The patterns of the corpus that refer to x or y where no ?for binds it.
UnboundTexts ==
  {"(?for x: ?=x) ?=x", "(?for x: ~i) ?bind(x, ~i)", "(?for x: ~i) ?x:installed",
   "?=x", "?for x: (?for y: ?=y) ?=y", "?for x: ?depends(?for y: ?=x) | ?=y"}

\* The patterns of the corpus whose references all stand in the body of the
\* ?for that binds them.
BoundTexts ==
  {"?for x: ?depends(?=x)", "?for x: ?bind(x, ~i)", "?for x: ?x:installed",
   "?for x: ?for y: ?depends(?=x ?=y)"}

\* C9: ?=x, ?bind(x, ...) and ?x:... are accepted inside the body of an
\* enclosing ?for that binds x, and are the error "Unknown variable"
\* everywhere else, also after the body of the ?for has ended.
C9_VariableScope ==
  /\ (ShapeParsed /\ Leaves[shape.leaf].refers /\ ~ShapeNarrow) =>
       IF ShapeBinds THEN parsed.m # NullM /\ parsed.err = ""
       ELSE parsed.m = NullM /\ parsed.err = "Unknown variable"
  /\ (Parsed /\ terms = <<>> /\ text \in UnboundTexts) =>
       (parsed.m = NullM /\ parsed.err = "Unknown variable")
  /\ (Parsed /\ terms = <<>> /\ text \in BoundTexts) =>
       (parsed.m # NullM /\ parsed.err = "")

\* ?and((?for x: ?true), ?=x): the reference comes after the body.
C9_Witness ==
  /\ ShapeParsed
  /\ shape = [wrappers |-> <<16>>, leaf |-> 3]
  /\ parsed.m = NullM /\ parsed.err = "Unknown variable"

\* The matcher of a bare word.
Word(w) == NameOrDescription(w, w, flags.search_descriptions)

\* C10: '!' binds tighter than juxtaposition, juxtaposition builds And to
\* the left and tighter than '|', and '|' builds Or to the right:
\* '!a b c | d | e' is Or(And(And(Not(a), b), c), Or(d, e)).
C10_Precedence ==
  (Parsed /\ terms = <<>>) =>
    /\ text = "!a b c | d | e" =>
         parsed.m = OrM(AndM(AndM(NotM(Word("a")), Word("b")), Word("c")),
                        OrM(Word("d"), Word("e")))
    /\ text = "a b | c" => parsed.m = OrM(AndM(Word("a"), Word("b")), Word("c"))
    /\ text = "a | b | c" => parsed.m = OrM(Word("a"), OrM(Word("b"), Word("c")))
    /\ text = "!a | b" => parsed.m = OrM(NotM(Word("a")), Word("b"))
    /\ text = "!(a b)" => parsed.m = NotM(AndM(Word("a"), Word("b")))
    /\ text = "(a | b) c" => parsed.m = AndM(OrM(Word("a"), Word("b")), Word("c"))

C10_Witness ==
  /\ Parsed /\ text = "!a b c | d | e" /\ terms = <<>>
  /\ parsed.m.kind = "or" /\ parsed.m.left.kind = "and" /\ parsed.m.right.kind = "or"

(***************************************************************************)
(* Evaluation of particular patterns and nodes (specification Spec).       *)
(***************************************************************************)
\* Whether some version of pkg has a Depends or PreDepends on pkg itself
\* that some version of pkg satisfies: read off the catalog.
SelfDependent(pkg) ==
  \E i \in 1..Len(C.ver) :
    /\ C.ver[i].pkg = pkg
    /\ \E k \in 1..Len(C.ver[i].deps) :
         LET d == C.ver[i].deps[k]
         IN  /\ d.type \in {"Depends", "PreDepends"}
             /\ d.target = pkg
             /\ \E j \in 1..Len(C.ver) :
                  C.ver[j].pkg = pkg /\ CheckDep(C.ver[j].verstr, d.op, d.tver)

\* C11: apply_matcher on '?for x: ?depends(?=x)' and a package is true
\* exactly when some version of the package has a Depends or PreDepends on
\* the package itself that a version of the package satisfies.
C11_SelfDependency ==
  (Evaluated("matches") /\ call.mode = "pkg" /\ text = "?for x: ?depends(?=x)")
    => (outcome.matches.hit <=> SelfDependent(call.pkg))

\* The package whose only dependency on itself is a PreDepends.
C11_Witness ==
  /\ Evaluated("matches") /\ call.mode = "pkg" /\ text = "?for x: ?depends(?=x)"
  /\ cat = 3 /\ call.pkg = "pre" /\ outcome.matches.hit

\* The stack values of the catalog: Package(P), and Version(P, V) for the
\* versions of P and for the end iterator.
StackValues ==
  {package_value(p) : p \in Packages}
  \cup UNION {{version_value(p, v) : v \in VersionsOf(p)} : p \in Packages}

\* C12: is_match_for is reflexive and symmetric and not transitive;
\* Package(P) matches Package(P) and every Version(P, _), Version(P, V)
\* matches itself and Package(P), values of different packages never match
\* and two different versions of one package do not match.
C12_IsMatchFor ==
  /\ \A a \in StackValues : is_match_for(a, a)
  /\ \A a, b \in StackValues : is_match_for(a, b) <=> is_match_for(b, a)
  /\ \A a, b \in StackValues :
       is_match_for(a, b) <=>
         /\ a.pkg = b.pkg
         /\ (a.type = "version" /\ b.type = "version") => a.ver = b.ver
  /\ \E a, b, c \in StackValues :
       is_match_for(a, b) /\ is_match_for(b, c) /\ ~is_match_for(a, c)

\* ?=x under ?all-versions, x being version 1.0 of a package that has a
\* version 2.0 as well: the versions differ, so the pattern is false.
C12_Witness ==
  /\ Evaluated("matches") /\ text = "?for x: ?widen(?all-versions(?=x))"
  /\ cat = 1 /\ call = [mode |-> "ver", pkg |-> "two", ver |-> 4]
  /\ ~outcome.matches.hit
  /\ is_match_for(version_value("two", 4), package_value("two"))
  /\ is_match_for(package_value("two"), version_value("two", 5))

\* Closed matchers to combine the parsed one with.
Pool ==
  {LeafM("installed"), LeafM("virtual"), LeafM("true"), LeafM("false"),
   StringM("version", "2.0"), DepM("Depends", LeafM("installed"), FALSE),
   AnyM(StringM("version", "1.0")), ExplicitM(DepM("Depends", EqualM(0), FALSE))}

\* apply_matcher(m, ...) with the arguments of the last facade call.
Bool(m) == Facade(m, "matches", call.mode, call.pkg, call.ver).hit

\* The same in package mode, whatever the call was.
PackageBool(m, pkg) == Facade(m, "matches", "pkg", pkg, NoVer).hit

DeMorgan(a, b) ==
  /\ Bool(NotM(OrM(a, b))) <=> Bool(AndM(NotM(a), NotM(b)))
  /\ Bool(NotM(AndM(a, b))) <=> Bool(OrM(NotM(a), NotM(b)))

\* C13: Not(Or(a, b)) and And(Not(a), Not(b)) give the same boolean, and so
\* do Not(And(a, b)) and Or(Not(a), Not(b)), on every package and version
\* in package mode and in version mode.
C13_DeMorgan ==
  phase = "evaluated" =>
    /\ \A b \in Pool : DeMorgan(parsed.m, b) /\ DeMorgan(b, parsed.m)
    /\ (Evaluated("matches") /\ parsed.m.kind = "not") =>
         /\ parsed.m.child.kind = "or" =>
              (outcome.matches.hit <=>
                 Bool(AndM(NotM(parsed.m.child.left), NotM(parsed.m.child.right))))
         /\ parsed.m.child.kind = "and" =>
              (outcome.matches.hit <=>
                 Bool(OrM(NotM(parsed.m.child.left), NotM(parsed.m.child.right))))

\* !(~i ?version(2.0)) on the installed version 1.0 of a package.
C13_Witness ==
  /\ Evaluated("matches") /\ text = "!(~i ?version(2.0))"
  /\ cat = 2 /\ call = [mode |-> "ver", pkg |-> "a", ver |-> 1]
  /\ outcome.matches.hit
  /\ Bool(OrM(NotM(LeafM("installed")), NotM(StringM("version", "2.0"))))

\* C14: Widen(x) on (P, V) and on P gives what x gives on P in package
\* mode; Widen(Widen(x)) gives the same boolean as Widen(x).
C14_Widen ==
  phase = "evaluated" =>
    /\ Bool(WidenM(parsed.m)) <=> PackageBool(parsed.m, call.pkg)
    /\ Bool(WidenM(WidenM(parsed.m))) <=> Bool(WidenM(parsed.m))
    /\ (Evaluated("matches") /\ parsed.m.kind = "widen") =>
         (outcome.matches.hit <=> PackageBool(parsed.m.pattern, call.pkg))

\* ?widen(?widen(?version(2.0))) on version 1.0 of a package that has a
\* version 2.0.
C14_Witness ==
  /\ Evaluated("matches") /\ text = "?widen(?widen(?version(2.0)))"
  /\ cat = 2 /\ call = [mode |-> "ver", pkg |-> "a", ver |-> 1]
  /\ outcome.matches.hit
  /\ ~Bool(StringM("version", "2.0"))

\* C15: in version mode Narrow(f, x) and And(f, x) give the same boolean:
\* true exactly when f and x both match (P, V).
C15_NarrowIsAnd ==
  (phase = "evaluated" /\ call.mode = "ver") =>
    /\ \A f \in Pool :
         /\ Bool(SelectM(f, parsed.m)) <=> Bool(AndM(f, parsed.m))
         /\ Bool(SelectM(f, parsed.m)) <=> (Bool(f) /\ Bool(parsed.m))
         /\ Bool(SelectM(parsed.m, f)) <=> Bool(AndM(parsed.m, f))
    /\ (Evaluated("matches") /\ parsed.m.kind = "select") =>
         (outcome.matches.hit <=> Bool(AndM(parsed.m.filter, parsed.m.pattern)))

\* ?narrow(?version(2.0), ?installed) on version 2.0, which is not the
\* installed one: the filter matches, the pattern does not.
C15_Witness ==
  /\ Evaluated("matches") /\ text = "?narrow(?version(2.0), ?installed)"
  /\ cat = 2 /\ call = [mode |-> "ver", pkg |-> "a", ver |-> 2]
  /\ ~outcome.matches.hit
  /\ Bool(StringM("version", "2.0"))

(***************************************************************************)
(* The grammar (specification ParserSpec).                                 *)
(***************************************************************************)
\* The matcher parse_pattern makes of t under the flags of the last call.
TreeOf(t) ==
  parse_pattern(t, 1, <<>>, flags.search_descriptions, flags.flag_errors, TRUE).m

\* C16: every short form parses, and the function-style pattern listed
\* with it parses to the same tree: the same nodes, dependency type, broken
\* flag and children.
C16_ShortFormEquivalence ==
  (Parsed /\ terms = <<>>) =>
    \A i \in 1..Len(ShortForms) :
      text = ShortForms[i].short =>
        (parsed.m # NullM /\ parsed.m = TreeOf(ShortForms[i].long))

\* ~RBconflicts:a is the broken reverse dependency of type Conflicts.
C16_Witness ==
  /\ Parsed /\ text = "~RBconflicts:a" /\ ~flags.search_descriptions
  /\ parsed.m = RevDepM("Conflicts", StringM("name", "a"), TRUE)
  /\ parsed.m = TreeOf("?reverse-broken-conflicts(a)")

\* The result of parse_pattern on t, when t is the text that was parsed.
ParsesTo(t, m) == (Parsed /\ terms = <<>> /\ text = t) => parsed.m = m
Unknown(t) ==
  (Parsed /\ terms = <<>> /\ text = t)
    => (parsed.m = NullM /\ parsed.err = "Unknown variable")

\* What evaluating m on a package from the empty stack ends with.
StatusOf(m, pkg) == Eval(m, "matches", "pkg", pkg, NoVer, <<>>, 8).status

C20_EqualIsMatchFor ==
  Evaluated("matches") =>
    \A s \in StackValues :
      /\ call.mode = "ver" =>
           Eval(EqualM(0), "matches", "ver", call.pkg, call.ver, <<s>>, 4).hit
             = is_match_for(version_value(call.pkg, call.ver), s)
      /\ call.mode = "pkg" =>
           Eval(EqualM(0), "matches", "pkg", call.pkg, NoVer, <<s>>, 4).hit
             = is_match_for(package_value(call.pkg), s)
      /\ text = "?for x: ?widen(?=x)" => outcome.matches.hit

(***************************************************************************)
(* Sharing a matcher (specification TagSpec).                              *)
(***************************************************************************)
\* C18: evaluation changes no state held in a matcher node, the memo of
\* UserTag included, so the member map stays as the constructor left it and
\* two callers that evaluate the same node at the same time never access
\* it in conflict.
C18_NoSharedMutableState ==
  /\ cached_matches = EmptyMemo
  /\ ~DataRace

(***************************************************************************)
(* The node semantics, one node at a time (specification Spec).            *)
(***************************************************************************)
\* The value the facade call hands to the root node.
CallValue ==
  IF call.mode = "pkg" THEN package_value(call.pkg)
  ELSE version_value(call.pkg, call.ver)

\* inner evaluated on the input of the call, in the mode of the call, under
\* a stack that holds the input alone, which is popped afterwards.
InnerOnCall(inner, op) ==
  [Eval(inner, op, call.mode, call.pkg, call.ver, <<CallValue>>, Fuel(inner) + 2)
     EXCEPT !.st = Pop(@)]

\* C21: Explicit(inner) on (P, V) pushes Version(P, V) and evaluates inner
\* on (P, V) in version mode, on a bare package P it pushes Package(P) and
\* evaluates inner in package mode, for matches and for get_match alike.
C21_ExplicitKeepsMode ==
  \A op \in {"matches", "get_match"} :
    (Evaluated(op) /\ parsed.m.kind = "explicit")
      => outcome[op] = InnerOnCall(parsed.m.sub_matcher, op)

\* inner evaluated in package mode on the i-th package that ver provides.
OnProvided(inner, op, ver, i) ==
  Eval(inner, op, "pkg", VerProvidesList(ver)[i], NoVer, <<>>, Fuel(inner) + 2)

ProvidedHits(inner, op, ver) ==
  IF ver = NoVer THEN {}
  ELSE {i \in 1..Len(VerProvidesList(ver)) : OnProvided(inner, op, ver, i).hit}

\* C22: Provides(inner) on (P, V) is true exactly when V is present and
\* inner matches, in package mode, some package that V provides; get_match
\* returns the pair of inner's result and "Provides" in exactly those cases,
\* also when the provided package has real versions.
C22_ProvidesPackageMode ==
  \A op \in {"matches", "get_match"} :
    (Evaluated(op) /\ parsed.m.kind = "provides" /\ call.mode = "ver") =>
      LET hits == ProvidedHits(parsed.m.pattern, op, call.ver)
      IN  /\ outcome[op].hit <=> hits # {}
          /\ (op = "get_match" /\ hits # {}) =>
               outcome[op].groups =
                 OnProvided(parsed.m.pattern, op, call.ver,
                            CHOOSE i \in hits : \A j \in hits : i <= j).groups
                   \o <<"Provides">>

\* inner evaluated by matches on one version of the package of the call.
OnVersion(inner, v) ==
  Eval(inner, "matches", "ver", call.pkg, v, <<>>, Fuel(inner) + 2).hit

RealVersions(pkg) == VersionsOf(pkg) \ {NoVer}

\* C23: in package mode All(inner) on P is true exactly when inner matches
\* (P, v) for every version v of P and Any(inner) exactly when it matches
\* some version of P; All(Installed) is false on a package with two
\* versions of which one is installed.
C23_Quantifiers ==
  (Evaluated("matches") /\ call.mode = "pkg") =>
    /\ parsed.m.kind = "all" =>
         (outcome.matches.hit <=>
            \A v \in RealVersions(call.pkg) : OnVersion(parsed.m.sub_matcher, v))
    /\ parsed.m.kind = "any" =>
         (outcome.matches.hit <=>
            \E v \in RealVersions(call.pkg) : OnVersion(parsed.m.sub_matcher, v))
    /\ (text = "?all-versions(?installed)" /\ Len(VersionList(call.pkg)) = 2
        /\ CurrentVer(call.pkg) # NoVer) => ~outcome.matches.hit

C23_Witness ==
  /\ Evaluated("matches") /\ call.mode = "pkg" /\ cat = 1 /\ call.pkg = "two"
  /\ text = "?all-versions(?installed)" /\ ~outcome.matches.hit

\* visit_matches and visit_get_match: m applied to a stack value, in the
\* mode of the type of the value, under the stack st.
OnValue(m, op, val, st, fuel) ==
  Eval(m, op, IF val.type = "package" THEN "pkg" ELSE "ver", val.pkg, val.ver,
       st, fuel)

\* C24: the result of Bind(inner, idx) does not depend on its input (P, V):
\* in both modes, for matches and for get_match, it is the result of inner
\* on stack[idx], in package mode for a Package(Q) and in version mode on
\* (Q, W) for a Version(Q, W).
C24_BindIgnoresInput ==
  phase = "evaluated" =>
    \A s \in StackValues, op \in {"matches", "get_match"} :
      Eval(BindM(parsed.m, 0), op, call.mode, call.pkg, call.ver, <<s>>,
           Fuel(parsed.m) + 3)
        = OnValue(parsed.m, op, s, <<s>>, Fuel(parsed.m) + 2)

\* ?bind(x, ?installed) under ?depends, x being the installed version of
\* apt, whose dependency libapt is not installed: the pattern is true
\* though ?depends(?installed) is false.
C24_Witness ==
  /\ Evaluated("matches") /\ cat = 1
  /\ text = "?for x: ?depends(?bind(x, ?installed))"
  /\ call = [mode |-> "ver", pkg |-> "apt", ver |-> 1]
  /\ outcome.matches.hit
  /\ ~Bool(DepM("Depends", LeafM("installed"), FALSE))

\* The dependencies of ver that count for the type, a PreDepends counting
\* as a Depends, and whose or-group is not satisfied at install time.
UnsatisfiedOfType(type, ver) ==
  {i \in 1..Len(DependsList(ver)) :
     /\ DepTypeSelected(type, DependsList(ver)[i].type)
     /\ ~OrGroupGInstall([ver |-> ver, idx |-> i])}

\* C25: BrokenDepType(type) matches (P, V) exactly when V is present and
\* some dependency of the type on V is unsatisfied at install time, a
\* PreDepends counting as a Depends.
C25_BrokenTypeFoldsPreDepends ==
  (Evaluated("matches") /\ parsed.m.kind = "broken_type" /\ call.mode = "ver") =>
    (outcome.matches.hit <=>
       (call.ver # NoVer /\ UnsatisfiedOfType(parsed.m.type, call.ver) # {}))

\* The pattern of a RevDep holds on the version that declares d.
OnParent(pattern, d) ==
  Eval(pattern, "matches", "ver", C.ver[d.ver].pkg, d.ver, <<>>,
       Fuel(pattern) + 2).hit

\* The edges a RevDep looks at: not those of a satisfied or-group when only
\* broken ones are asked for, and of the type, Depends absorbing PreDepends.
EdgeCounts(m, d) ==
  /\ ~(m.broken /\ OrGroupGInstall(d))
  /\ DepTypeSelected(m.type, DepAt(d).type)

Edges(pkg) == {RevDependsList(pkg)[i] : i \in 1..Len(RevDependsList(pkg))}
Provided(ver) ==
  IF ver = NoVer THEN {}
  ELSE {VerProvidesList(ver)[i] : i \in 1..Len(VerProvidesList(ver))}

\* C26: RevDep(type, inner, brokenOnly) on (P, V) is true exactly when inner
\* matches the declaring version of an edge of the type, Depends absorbing
\* PreDepends on both paths: an edge on P that is unversioned or whose
\* constraint V satisfies, or an unversioned edge on a package V provides.
C26_RevDepTypeRule ==
  (Evaluated("matches") /\ parsed.m.kind = "revdep" /\ call.mode = "ver") =>
    (outcome.matches.hit <=>
       \/ \E d \in Edges(call.pkg) :
            /\ EdgeCounts(parsed.m, d)
            /\ DepAt(d).tver = ""
               \/ (call.ver # NoVer
                   /\ CheckDep(C.ver[call.ver].verstr, DepAt(d).op, DepAt(d).tver))
            /\ OnParent(parsed.m.pattern, d)
       \/ \E q \in Provided(call.ver) : \E d \in Edges(q) :
            /\ EdgeCounts(parsed.m, d)
            /\ DepAt(d).tver = ""
            /\ OnParent(parsed.m.pattern, d))

(***************************************************************************)
(* The groups of a match (specification RxSpec).                           *)
(***************************************************************************)
\* C27: the result of a regex-based get_match holds group 0 followed by
\* every parenthesized subgroup that took part in the match, among the
\* first 30 slots, also when a subgroup with a lower number took no part.
C27_EveryPopulatedGroup ==
  (rx.phase = "matched" /\ rx.matched) =>
    rx.groups = match_result_all(rx.s, rx.pmatch, MatchesLen, 0)

\* C28: variable names are case-insensitive: a variable bound by ?for in
\* any letter case is found by ?=x, by ?bind(x, ...) and by the x: prefix
\* written in any letter case.
C28_VariableNamesIgnoreCase ==
  /\ ParsesTo("?for X: ?=x", ExplicitM(EqualM(0)))
  /\ ParsesTo("?for x: ?=X", ExplicitM(EqualM(0)))
  /\ ParsesTo("?for X: ?=X", ExplicitM(EqualM(0)))
  /\ ParsesTo("?for x: ?bind(X, ?true)", ExplicitM(BindM(LeafM("true"), 0)))
  /\ ParsesTo("?for X: ?bind(x, ?true)", ExplicitM(BindM(LeafM("true"), 0)))
  /\ ParsesTo("?for x: ?X:true", ExplicitM(BindM(LeafM("true"), 0)))
  /\ ParsesTo("?for X: ?x:true", ExplicitM(BindM(LeafM("true"), 0)))
  /\ ParsesTo("?for Xy: ?xY:true", ExplicitM(BindM(LeafM("true"), 0)))

(***************************************************************************)
(* The mode in which the quantifiers are evaluated.  OnOneVersion follows  *)
(* the calls of Eval, node by node and loop by loop, and tells whether     *)
(* one of them is the version-mode function of an All or Any node.         *)
(***************************************************************************)
RECURSIVE OnOneVersion(_, _, _, _, _, _, _), OnOneVersionLoop(_, _, _, _, _, _)

\* A loop over inputs that goes on while the verdict of m is not `stop'.
OnOneVersionLoop(m, op, inputs, st, fuel, stop) ==
  IF inputs = <<>> THEN FALSE
  ELSE \/ OnOneVersion(m, op, Head(inputs).mode, Head(inputs).pkg,
                       Head(inputs).ver, st, fuel)
       \/ /\ Eval(m, op, Head(inputs).mode, Head(inputs).pkg, Head(inputs).ver,
                  st, fuel).hit # stop
          /\ OnOneVersionLoop(m, op, Tail(inputs), st, fuel, stop)

OnOneVersion(m, op, mode, pkg, ver, st, fuel) ==
  IF fuel = 0 THEN FALSE
  ELSE
  CASE m.kind \in {"or", "and"} ->
         \/ OnOneVersion(m.left, op, mode, pkg, ver, st, fuel - 1)
         \/ /\ Eval(m.left, op, mode, pkg, ver, st, fuel - 1).hit = (m.kind = "and")
            /\ OnOneVersion(m.right, op, mode, pkg, ver, st, fuel - 1)
    [] m.kind = "not" -> OnOneVersion(m.child, op, mode, pkg, ver, st, fuel - 1)
    [] m.kind = "widen" ->
         OnOneVersion(m.pattern, op, WidenMode(mode), pkg,
                      IF WidenMode(mode) = "pkg" THEN NoVer ELSE ver, st, fuel - 1)
    [] m.kind = "explicit" ->
         IF mode = "pkg"
         THEN OnOneVersion(m.sub_matcher, op, "pkg", pkg, NoVer,
                           Push(st, package_value(pkg)), fuel - 1)
         ELSE IF ExplicitSubMode(op) = "pkg"
              THEN OnOneVersion(m.sub_matcher, op, "pkg", pkg, NoVer,
                                Push(st, version_value(pkg, ver)), fuel - 1)
              ELSE OnOneVersion(m.sub_matcher, op, "ver", pkg, ver,
                                Push(st, version_value(pkg, ver)), fuel - 1)
    [] m.kind = "bind" ->
         /\ m.variable >= 0 /\ m.variable < Len(st)
         /\ OnOneVersion(BindSubMatcher(m), op,
                         IF st[m.variable + 1].type = "package" THEN "pkg" ELSE "ver",
                         st[m.variable + 1].pkg, st[m.variable + 1].ver, st, fuel - 1)
    [] m.kind \in {"all", "any"} /\ mode = "pkg" ->
         OnOneVersionLoop(m.sub_matcher, op, VersionInputs(pkg, VersionList(pkg)),
                          st, fuel - 1, m.kind = "any")
    [] m.kind \in {"all", "any"} /\ mode = "ver" -> TRUE
    [] m.kind \notin OverridesPackageMode /\ mode = "pkg" ->
         OnOneVersionLoop(m, op, VersionInputs(pkg, DefaultVersions(pkg)), st,
                          fuel - 1, TRUE)
    [] m.kind = "select" /\ mode = "ver" ->
         \/ OnOneVersion(m.filter, "matches", "ver", pkg, ver, st, fuel - 1)
         \/ /\ Eval(m.filter, "matches", "ver", pkg, ver, st, fuel - 1).hit
            /\ OnOneVersion(m.pattern, op, "ver", pkg, ver, st, fuel - 1)
    [] m.kind = "dep" /\ mode = "ver" ->
         /\ ver # NoVer
         /\ OnOneVersionLoop(DepPattern(m), op, DepTargets(m, op, ver), st,
                             fuel - 1, TRUE)
    [] m.kind = "revdep" /\ mode = "ver" ->
         OnOneVersionLoop(m.pattern, op, RevDepTargets(m, op, pkg, ver), st,
                          fuel - 1, TRUE)
    [] m.kind = "provides" /\ mode = "ver" ->
         /\ ver # NoVer
         /\ OnOneVersionLoop(m.pattern, op, ProvidesTargets(op, ver), st,
                             fuel - 1, TRUE)
    [] m.kind = "revprv" /\ mode = "ver" ->
         OnOneVersionLoop(m.pattern, op, RevPrvTargets(op, pkg), st, fuel - 1, TRUE)
    [] OTHER -> FALSE

\* C29: when a parsed matcher is applied through the package-mode
\* apply_matcher(M, P) or get_match(M, P), every evaluation of an All or
\* Any node is in package mode, never on one single version, also behind a
\* Bind whose variable was bound inside a dependency matcher.
C29_QuantifiersInPackageMode ==
  \A op \in {"matches", "get_match"} :
    (Evaluated(op) /\ call.mode = "pkg") =>
      ~OnOneVersion(parsed.m, op, "pkg", call.pkg, NoVer, <<>>, Fuel(parsed.m))

\* The complete terminator t occurs in s at pos.
OccursAt(t, s, pos) ==
  pos + Len(t) - 1 <= Len(s) /\ SubSeq(s, pos, pos + Len(t) - 1) = t

\* C30: a terminator stops the parser at a position only when the complete
\* terminator occurs there; a text that ends with a proper prefix of a
\* terminator, as "a=" with the terminator "=>", is not cut and is parsed
\* as ordinary pattern text.
C30_CompleteTerminatorOnly ==
  phase = "parsed" =>
    /\ \A pos \in 1..Len(text) :
         terminate(text, pos, terms)
           <=> \E i \in 1..Len(terms) : OccursAt(terms[i], text, pos)
    /\ (text = "a=" /\ terms = <<"=>">> /\ ~flags.search_descriptions) =>
         (parsed.m = StringM("name", "a=") /\ parsed.pos = Len(text) + 1)

=============================================================================
